---------------------------- MODULE Spec2Model ----------------------------
(* Verification model of gh-renovate's merge workflow:                      *)
(*   orchestrateMerge / processSinglePR (src/src/operations/orchestrator.ts)*)
(* together with the helpers they call.  JavaScript strings that the code   *)
(* inspects (toLowerCase, includes, template literals) are sequences of     *)
(* one-character strings, so that substring tests are computed as the code  *)
(* computes them.                                                           *)
EXTENDS Integers, Sequences, FiniteSets, TLC

(***************************************************************************)
(* Bounds of the exploration                                               *)
(***************************************************************************)
\* longest input list of PRs handed to orchestrateMerge
MaxPRs == 3

\* the longest sequence of read calls followed when a live and a dry-run
\* progression are compared
MaxReads == 7

(***************************************************************************)
(* JavaScript values                                                       *)
(***************************************************************************)
\* the value of an absent optional string (result.reason, validation.reason)
Undefined == <<"undefined">>
\* JavaScript null where the code expects a string (conclusion, body)
Null == <<"null">>
\* the place of a property that is an accessor: its value is computed when
\* it is read
OnRead == <<"getter">>

UpperChars == <<"A","B","C","D","E","F","G","H","I","J","K","L","M","N","O","P","Q","R","S","T","U","V","W","X","Y","Z">>
LowerChars == <<"a","b","c","d","e","f","g","h","i","j","k","l","m","n","o","p","q","r","s","t","u","v","w","x","y","z">>

\* String.prototype.toLowerCase, one character
LowerChar(c) ==
  IF \E i \in 1..Len(UpperChars) : UpperChars[i] = c
  THEN LowerChars[CHOOSE i \in 1..Len(UpperChars) : UpperChars[i] = c]
  ELSE c

\* String.prototype.toLowerCase
toLowerCase(s) == [i \in 1..Len(s) |-> LowerChar(s[i])]

\* String.prototype.includes
includes(s, sub) ==
  \E i \in 0..(Len(s) - Len(sub)) : SubSeq(s, i + 1, i + Len(sub)) = sub

\* decimal digits of a natural number, as `${n}` prints it
DigitChars == <<"0","1","2","3","4","5","6","7","8","9">>

RECURSIVE numToString(_)
numToString(n) ==
  IF n < 10 THEN <<DigitChars[n + 1]>>
  ELSE numToString(n \div 10) \o <<DigitChars[(n % 10) + 1]>>

\* Array.prototype.join over an array of strings
RECURSIVE join(_, _)
join(parts, sep) ==
  IF Len(parts) = 0 THEN <<>>
  ELSE IF Len(parts) = 1 THEN parts[1]
  ELSE parts[1] \o sep \o join(Tail(parts), sep)

(***************************************************************************)
(* errors/types: the error taxonomy.  An error value is a record           *)
(*   cls         the class (for instanceof)                                *)
(*   message     Error.message                                             *)
(*   userMessage GhRenovateError.userMessage (Undefined for a plain Error; *)
(*               OnRead for the getter of RateLimitError, which reads the  *)
(*               clock: see userMessageAt)                                 *)
(***************************************************************************)
\* the subclasses of GhRenovateError that errors/types defines
GhRenovateErrorClasses ==
  {"AuthError", "RateLimitError", "PRStateError", "PollingTimeoutError",
   "NetworkError", "ValidationError", "RenovateError"}

\* the class that the orchestrator imports from errors/types and that
\* errors/types does not define: taken to extend GhRenovateError as every
\* class of that module does
ImportedErrorClasses == {"MergeBlockedError"}

\* an error raised by the host client (Octokit RequestError): a plain Error
\* carrying the HTTP status
HttpError(status, message) ==
  [cls |-> "Error", message |-> message, userMessage |-> Undefined,
   status |-> status]

\* error instanceof GhRenovateError
isGhRenovateError(error) ==
  error.cls \in GhRenovateErrorClasses \cup ImportedErrorClasses

\* new PRStateError(code, prNumber, userMessage)
PRStateError(prNumber, userMessage) ==
  [cls |-> "PRStateError",
   message |-> <<"P","R"," ","#">> \o numToString(prNumber) \o <<":"," ">> \o userMessage,
   userMessage |-> userMessage, status |-> 0]

\* new PollingTimeoutError(operation, timeoutMs)
PollingTimeoutError(operation, timeoutMs) ==
  [cls |-> "PollingTimeoutError",
   message |-> <<"T","i","m","e","o","u","t"," ","w","a","i","t","i","n","g"," ","f","o","r"," ">> \o operation \o <<" ","a","f","t","e","r"," ">>
               \o numToString(timeoutMs) \o <<"m","s">>,
   \* Math.round(timeoutMs / 1000)
   userMessage |-> <<"T","i","m","e","o","u","t"," ","a","f","t","e","r"," ">> \o numToString((timeoutMs + 500) \div 1000)
                   \o <<"s"," ","w","a","i","t","i","n","g"," ","f","o","r"," ">> \o operation,
   status |-> 0]

\* new Error(message)
PlainError(message) ==
  [cls |-> "Error", message |-> message, userMessage |-> Undefined,
   status |-> 0]

\* the merge-blocked condition of the host (its class is imported by the
\* orchestrator from errors/types); it carries no HTTP status
MergeBlockedError(prNumber) ==
  [cls |-> "MergeBlockedError",
   message |-> <<"P","R"," ","#">> \o numToString(prNumber) \o <<":"," ","M","e","r","g","e"," ","b","l","o","c","k","e","d">>,
   userMessage |-> <<"M","e","r","g","e"," ","b","l","o","c","k","e","d",":"," ","r","e","q","u","i","r","e","m","e","n","t","s"," ","n","o","t"," ","m","e","t">>,
   status |-> 0]

(***************************************************************************)
(* github/pulls: snapshots                                                 *)
(***************************************************************************)
\* needsRebase(pr)
needsRebase(pr) ==
  \/ pr.mergeableState = <<"b","e","h","i","n","d">>
  \/ pr.mergeableState = <<"d","i","r","t","y">>
  \/ pr.mergeable = "false"

\* variant: the closed state is tested before the merged flag, and the
\* conflict before the draft flag
validatePRStateReordered(pr) ==
  IF pr.state = "closed" THEN [valid |-> FALSE, reason |-> <<"P","R"," ","w","a","s"," ","c","l","o","s","e","d">>]
  ELSE IF pr.merged THEN [valid |-> FALSE, reason |-> <<"P","R"," ","w","a","s"," ","a","l","r","e","a","d","y"," ","m","e","r","g","e","d">>]
  ELSE IF pr.mergeableState = <<"d","i","r","t","y">>
       THEN [valid |-> FALSE, reason |-> <<"P","R"," ","h","a","s"," ","m","e","r","g","e"," ","c","o","n","f","l","i","c","t","s">>]
  ELSE IF pr.draft THEN [valid |-> FALSE, reason |-> <<"P","R"," ","i","s"," ","s","t","i","l","l"," ","i","n"," ","d","r","a","f","t">>]
  ELSE [valid |-> TRUE, reason |-> Undefined]

\* validatePRState(pr): [valid, reason]
validatePRState(pr) ==
  IF pr.merged THEN [valid |-> FALSE, reason |-> <<"P","R"," ","w","a","s"," ","a","l","r","e","a","d","y"," ","m","e","r","g","e","d">>]
  ELSE IF pr.state = "closed" THEN [valid |-> FALSE, reason |-> <<"P","R"," ","w","a","s"," ","c","l","o","s","e","d">>]
  ELSE IF pr.draft THEN [valid |-> FALSE, reason |-> <<"P","R"," ","i","s"," ","s","t","i","l","l"," ","i","n"," ","d","r","a","f","t">>]
  ELSE IF pr.mergeableState = <<"d","i","r","t","y">>
       THEN [valid |-> FALSE, reason |-> <<"P","R"," ","h","a","s"," ","m","e","r","g","e"," ","c","o","n","f","l","i","c","t","s">>]
  ELSE [valid |-> TRUE, reason |-> Undefined]

(***************************************************************************)
(* github/checks                                                           *)
(***************************************************************************)
\* the check-run loop of getChecksStatus: one CheckDetail per run
RunDetail(run) ==
  [name |-> run.name, status |-> run.status, conclusion |-> run.conclusion]

\* the commit-status loop of getChecksStatus: one CheckDetail per status
StatusDetail(st) ==
  [name |-> st.context,
   status |-> IF st.state # <<"p","e","n","d","i","n","g">> THEN "completed" ELSE "in_progress",
   conclusion |-> IF st.state = <<"p","e","n","d","i","n","g">> THEN Null ELSE st.state]

\* statuses whose context is not yet among the details are kept, in order
RECURSIVE AddStatuses(_, _)
AddStatuses(details, statuses) ==
  IF statuses = <<>> THEN details
  ELSE IF \E i \in 1..Len(details) : details[i].name = Head(statuses).context
       THEN AddStatuses(details, Tail(statuses))
       ELSE AddStatuses(Append(details, StatusDetail(Head(statuses)) @@
                                        [legacy |-> TRUE]),
                        Tail(statuses))

\* variant: pending checks are looked at before failed ones
getChecksStatusPendingFirst(checkRuns, statuses) ==
  LET runDetails == [i \in 1..Len(checkRuns) |->
                        RunDetail(checkRuns[i]) @@ [legacy |-> FALSE]]
      all        == AddStatuses(runDetails, statuses)
      IsDone(d)  == d.status = "completed"
      IsOk(d)    == /\ d.status = "completed"
                    /\ IF d.legacy THEN d.conclusion = <<"s","u","c","c","e","s","s">>
                       ELSE d.conclusion \in {<<"s","u","c","c","e","s","s">>, <<"s","k","i","p","p","e","d">>, <<"n","e","u","t","r","a","l">>}
      IsBad(d)   == /\ d.status = "completed"
                    /\ IF d.legacy THEN d.conclusion \in {<<"f","a","i","l","u","r","e">>, <<"e","r","r","o","r">>}
                       ELSE d.conclusion \in {<<"f","a","i","l","u","r","e">>, <<"t","i","m","e","d","_","o","u","t">>, <<"c","a","n","c","e","l","l","e","d">>}
      total      == Len(all)
      completed  == Len(SelectSeq(all, IsDone))
      successful == Len(SelectSeq(all, IsOk))
      failed     == Len(SelectSeq(all, IsBad))
      pending    == total - completed
      state      == IF pending > 0 \/ completed < total THEN "pending"
                    ELSE IF failed > 0 THEN "failure"
                    ELSE IF successful = total THEN "success"
                    ELSE "error"
  IN [state |-> state, total |-> total, completed |-> completed,
      successful |-> successful, failed |-> failed, pending |-> pending,
      details |-> [i \in 1..Len(all) |->
                     [name |-> all[i].name, status |-> all[i].status,
                      conclusion |-> all[i].conclusion]]]

\* getChecksStatus(client, owner, repo, sha), from the two host responses
getChecksStatus(checkRuns, statuses) ==
  LET runDetails == [i \in 1..Len(checkRuns) |->
                        RunDetail(checkRuns[i]) @@ [legacy |-> FALSE]]
      all        == AddStatuses(runDetails, statuses)
      IsDone(d)  == d.status = "completed"
      IsOk(d)    == /\ d.status = "completed"
                    /\ IF d.legacy THEN d.conclusion = <<"s","u","c","c","e","s","s">>
                       ELSE d.conclusion \in {<<"s","u","c","c","e","s","s">>, <<"s","k","i","p","p","e","d">>, <<"n","e","u","t","r","a","l">>}
      IsBad(d)   == /\ d.status = "completed"
                    /\ IF d.legacy THEN d.conclusion \in {<<"f","a","i","l","u","r","e">>, <<"e","r","r","o","r">>}
                       ELSE d.conclusion \in {<<"f","a","i","l","u","r","e">>, <<"t","i","m","e","d","_","o","u","t">>, <<"c","a","n","c","e","l","l","e","d">>}
      total      == Len(all)
      completed  == Len(SelectSeq(all, IsDone))
      successful == Len(SelectSeq(all, IsOk))
      failed     == Len(SelectSeq(all, IsBad))
      pending    == total - completed
      state      == IF failed > 0 THEN "failure"
                    ELSE IF pending > 0 \/ completed < total THEN "pending"
                    ELSE IF successful = total THEN "success"
                    ELSE "error"
  IN [state |-> state, total |-> total, completed |-> completed,
      successful |-> successful, failed |-> failed, pending |-> pending,
      details |-> [i \in 1..Len(all) |->
                     [name |-> all[i].name, status |-> all[i].status,
                      conclusion |-> all[i].conclusion]]]

\* variant: only the first failed check is named
formatFailedChecksFirst(status) ==
  LET IsFailed(d) == d.conclusion \in
                       {<<"f","a","i","l","u","r","e">>, <<"t","i","m","e","d","_","o","u","t">>, <<"c","a","n","c","e","l","l","e","d">>, <<"e","r","r","o","r">>}
      failedChecks == SelectSeq(status.details, IsFailed)
  IN IF Len(failedChecks) = 0 THEN <<"N","o"," ","f","a","i","l","e","d"," ","c","h","e","c","k","s">>
     ELSE failedChecks[1].name \o <<" ","(">> \o failedChecks[1].conclusion \o <<")">>

\* formatFailedChecks(status)
formatFailedChecks(status) ==
  LET IsFailed(d) == d.conclusion \in
                       {<<"f","a","i","l","u","r","e">>, <<"t","i","m","e","d","_","o","u","t">>, <<"c","a","n","c","e","l","l","e","d">>, <<"e","r","r","o","r">>}
      failedChecks == SelectSeq(status.details, IsFailed)
  IN IF Len(failedChecks) = 0 THEN <<"N","o"," ","f","a","i","l","e","d"," ","c","h","e","c","k","s">>
     ELSE join([i \in 1..Len(failedChecks) |->
                  failedChecks[i].name \o <<" ","(">> \o failedChecks[i].conclusion
                  \o <<")">>],
               <<","," ">>)

areChecksPassing(status) == status.state = "success"

areChecksPending(status) == status.state = "pending"

areChecksFailing(status) == status.state = "failure" \/ status.state = "error"

\* variant: the check's name is compared, not searched
hasStabilityDaysPendingExact(status) ==
  \E i \in 1..Len(status.details) :
    /\ toLowerCase(status.details[i].name) = <<"s","t","a","b","i","l","i","t","y","-","d","a","y","s">>
    /\ status.details[i].status # "completed"

\* hasStabilityDaysPending(status)
hasStabilityDaysPending(status) ==
  \E i \in 1..Len(status.details) :
    /\ includes(toLowerCase(status.details[i].name), <<"s","t","a","b","i","l","i","t","y","-","d","a","y","s">>)
    /\ status.details[i].status # "completed"

\* IGNORED_PENDING_CHECKS, lines 156-158
IGNORED_PENDING_CHECKS == { <<"r","e","n","o","v","a","t","e","/","s","t","a","b","i","l","i","t","y","-","d","a","y","s">> }

\* lines 176-178: the check's name matches an entry of the list
IsIgnorable(check) ==
  \E ignored \in IGNORED_PENDING_CHECKS :
    includes(toLowerCase(check.name), toLowerCase(ignored))

\* hasBlockingPendingChecks(status)
hasBlockingPendingChecks(status) ==
  LET IsPending(d) == d.status # "completed"
      pendingChecks == SelectSeq(status.details, IsPending)
  IN IF Len(pendingChecks) = 0 THEN FALSE
     ELSE ~(\A i \in 1..Len(pendingChecks) : IsIgnorable(pendingChecks[i]))

(***************************************************************************)
(* github/reviews                                                          *)
(***************************************************************************)
\* the latest meaningful state per reviewer, as reviewsByUser holds it
RECURSIVE ReviewsByUser(_, _)
ReviewsByUser(reviews, map) ==
  IF reviews = <<>> THEN map
  ELSE LET r == Head(reviews)
       IN IF r.login = "" THEN ReviewsByUser(Tail(reviews), map)
          ELSE IF r.state \in {"APPROVED", "CHANGES_REQUESTED", "DISMISSED"}
               THEN ReviewsByUser(Tail(reviews),
                      [u \in DOMAIN map \cup {r.login} |->
                         IF u = r.login THEN r.state ELSE map[u]])
               ELSE ReviewsByUser(Tail(reviews), map)

\* variant: any approving review counts, whatever the reviewer did later
getReviewInfoAnyApproval(reviews) ==
  LET byUser == ReviewsByUser(reviews, [u \in {} |-> "APPROVED"])
  IN [hasApproval |-> \E i \in DOMAIN reviews :
                        reviews[i].login # "" /\ reviews[i].state = "APPROVED",
      changesRequested |-> \E u \in DOMAIN byUser : byUser[u] = "CHANGES_REQUESTED"]

\* getReviewInfo(client, owner, repo, prNumber), from the listed reviews
getReviewInfo(reviews) ==
  LET byUser == ReviewsByUser(reviews, [u \in {} |-> "APPROVED"])
  IN [hasApproval |-> \E u \in DOMAIN byUser : byUser[u] = "APPROVED",
      changesRequested |-> \E u \in DOMAIN byUser : byUser[u] = "CHANGES_REQUESTED"]


(***************************************************************************)
(* renovate/rebase                                                         *)
(***************************************************************************)
\* REBASE_CHECKBOX_PATTERNS: [literal text, case-insensitive flag]
REBASE_CHECKBOX_PATTERNS ==
  << [text |-> <<"-"," ","["," ","]"," ","<","!","-","-"," ","r","e","b","a","s","e","-","c","h","e","c","k"," ","-","-",">">>, i |-> FALSE],
     [text |-> <<"-"," ","["," ","]"," ","I","f"," ","y","o","u"," ","w","a","n","t"," ","t","o"," ","r","e","b","a","s","e","/","r","e","t","r","y"," ","t","h","i","s"," ","P","R">>, i |-> TRUE],
     [text |-> <<"-"," ","["," ","]"," ","R","e","b","a","s","e"," ","t","h","i","s"," ","P","R">>, i |-> TRUE],
     [text |-> <<"["," ","]"," ","<","!","-","-"," ","r","e","n","o","v","a","t","e","-","r","e","b","a","s","e"," ","-","-",">">>, i |-> FALSE] >>

\* CHECKED_PATTERNS, all case-insensitive
CHECKED_PATTERNS ==
  << [text |-> <<"-"," ","[","x","]"," ","<","!","-","-"," ","r","e","b","a","s","e","-","c","h","e","c","k"," ","-","-",">">>, i |-> TRUE],
     [text |-> <<"-"," ","[","x","]"," ","I","f"," ","y","o","u"," ","w","a","n","t"," ","t","o"," ","r","e","b","a","s","e","/","r","e","t","r","y"," ","t","h","i","s"," ","P","R">>, i |-> TRUE],
     [text |-> <<"-"," ","[","x","]"," ","R","e","b","a","s","e"," ","t","h","i","s"," ","P","R">>, i |-> TRUE],
     [text |-> <<"[","x","]"," ","<","!","-","-"," ","r","e","n","o","v","a","t","e","-","r","e","b","a","s","e"," ","-","-",">">>, i |-> TRUE] >>

\* RegExp.prototype.test for a literal pattern
PatternTest(pattern, body) ==
  IF pattern.i THEN includes(toLowerCase(body), toLowerCase(pattern.text))
  ELSE includes(body, pattern.text)

\* isRebaseAlreadyTriggered(body)
isRebaseAlreadyTriggered(body) ==
  \E k \in 1..Len(CHECKED_PATTERNS) : PatternTest(CHECKED_PATTERNS[k], body)

\* triggerRebase(client, owner, repo, pr): the host call it awaits
\* ("none" when the checkbox is already ticked)
triggerRebaseCall(pr) ==
  LET body == IF pr.body = Null THEN <<>> ELSE pr.body
  IN IF isRebaseAlreadyTriggered(body) THEN "none"
     ELSE IF \E k \in 1..Len(REBASE_CHECKBOX_PATTERNS) :
                PatternTest(REBASE_CHECKBOX_PATTERNS[k], body)
          THEN "pulls.update"
          ELSE "issues.createComment"

\* hasNewCommitSince(client, owner, repo, prNumber, previousSha)
hasNewCommitSince(pr, previousSha) ==
  [hasNewCommit |-> pr.sha # previousSha, currentSha |-> pr.sha]


(***************************************************************************)
(* operations/orchestrator: processSinglePR                                *)
(*                                                                         *)
(* The frame of one invocation is a record ps.  ps.pc names the await the  *)
(* invocation is suspended at; Step resumes it with the completion event   *)
(* of the awaited operation and runs it to its next await or its return.   *)
(* An event is [ok, val, err, late]: ok/val a fulfilled promise, err a     *)
(* rejection, late what the poller's clock comparison                      *)
(* (elapsed >= timeoutMs) yields when the code next evaluates it.          *)
(***************************************************************************)
MAX_PROCESS_RETRIES == 3

maxMergeRetries == 3

\* DEFAULT_OPTIONS.checkTimeoutMs = 10 * 60 * 1000
checkTimeoutMs == 600000

\* DEFAULT_OPTIONS.rebaseTimeoutMs = 5 * 60 * 1000
rebaseTimeoutMs == 300000

NoPR == [number |-> 0, state |-> "none", merged |-> FALSE, draft |-> FALSE,
         mergeable |-> "null", mergeableState |-> <<>>, sha |-> "", body |-> Null]

NoChecks == [state |-> "none", total |-> 0, completed |-> 0, successful |-> 0,
             failed |-> 0, pending |-> 0, details |-> <<>>]

NoReviewInfo == [hasApproval |-> FALSE, changesRequested |-> FALSE,
                 fetched |-> FALSE]

\* no error has reached the catch of line 337
NoError == [cls |-> "none", message |-> <<>>, userMessage |-> Undefined,
            status |-> 0]

\* ui.updateStatus(message): ps.out holds, in order, the messages passed
\* since the invocation was last resumed
updateStatus(ps, message) == [ps EXCEPT !.out = Append(@, message)]

\* the frame at entry, suspended at the first getPullRequest (line 121)
NewFrame(prNumber) ==
  [pc |-> "fetch1", prNumber |-> prNumber, attempt |-> 1, mergeAttempt |-> 0,
   freshPR |-> NoPR, checksStatus |-> NoChecks, reviewInfo |-> NoReviewInfo,
   previousSha |-> "", site |-> "none", triggerApi |-> "none",
   passedShas |-> {}, polledSha |-> "", rebasedSha |-> "",
   out |-> << <<"F","e","t","c","h","i","n","g"," ","l","a","t","e","s","t"," ","P","R"," ","d","a","t","a",".",".",".">> >>, caught |-> NoError,
   result |-> [prNumber |-> prNumber, status |-> "failed", reason |-> Undefined]]

\* result.status = ...; result.reason = ...; return result
Return(ps, status, reason) ==
  [ps EXCEPT !.pc = "return",
             !.result = [prNumber |-> ps.prNumber, status |-> status,
                         reason |-> reason]]

\* the next iteration of the fail-safe loop: the block-scoped locals are
\* fresh, and attempt > 1 awaits sleep(2000) first
NextAttempt(ps) ==
  updateStatus(
    [ps EXCEPT !.pc = "retrySleep", !.attempt = ps.attempt + 1,
               !.mergeAttempt = 0, !.freshPR = NoPR, !.checksStatus = NoChecks,
               !.reviewInfo = NoReviewInfo,
               !.previousSha = "", !.site = "none", !.triggerApi = "none",
               !.passedShas = {}, !.polledSha = "",
               !.rebasedSha = ""],
    <<"R","e","t","r","y","i","n","g"," ","f","r","o","m"," ","s","t","a","r","t"," ","(","a","t","t","e","m","p","t"," ">> \o numToString(ps.attempt + 1) \o <<"/">>
    \o numToString(MAX_PROCESS_RETRIES) \o <<")",".",".",".">>)

\* the merge loop ran out without return or throw: the for statement
\* increments attempt; after the last attempt line 361 returns result
FallThrough(ps) ==
  IF ps.attempt < MAX_PROCESS_RETRIES THEN NextAttempt(ps)
  ELSE [ps EXCEPT !.pc = "return"]

\* variant: a polling timeout restarts the progression too
IsRetriableErrorOrTimeout(error) ==
  \/ error.cls = "MergeBlockedError"
  \/ error.cls = "PollingTimeoutError"
  \/ includes(error.message, <<"n","e","e","d","s"," ","r","e","b","a","s","e">>)

\* the classification of lines 339-341
IsRetriableError(error) ==
  \/ error.cls = "MergeBlockedError"
  \/ includes(error.message, <<"n","e","e","d","s"," ","r","e","b","a","s","e">>)

\* variant: the reason is always the error's message
CatchRawMessage(ps, error) ==
  LET ps1 == [ps EXCEPT !.caught = error] IN
  IF IsRetriableError(error) /\ ps.attempt < MAX_PROCESS_RETRIES
  THEN NextAttempt(updateStatus(ps1, <<"E","r","r","o","r"," ","o","c","c","u","r","r","e","d",","," ","w","i","l","l"," ","r","e","t","r","y",":"," ">>
                                       \o error.message))
  ELSE Return(ps1, "failed", error.message)

\* variant: the catch allows one more attempt
CatchOnceMore(ps, error) ==
  LET ps1 == [ps EXCEPT !.caught = error] IN
  IF IsRetriableError(error) /\ ps.attempt < MAX_PROCESS_RETRIES + 1
  THEN NextAttempt(updateStatus(ps1, <<"E","r","r","o","r"," ","o","c","c","u","r","r","e","d",","," ","w","i","l","l"," ","r","e","t","r","y",":"," ">>
                                       \o error.message))
  ELSE Return(ps1, "failed",
              IF isGhRenovateError(error) THEN error.userMessage
              ELSE error.message)

\* catch (error) of the fail-safe loop, lines 337-358; ps.caught is the
\* error the block was entered with at this resumption
Catch(ps, error) ==
  LET ps1 == [ps EXCEPT !.caught = error] IN
  IF IsRetriableError(error) /\ ps.attempt < MAX_PROCESS_RETRIES
  THEN NextAttempt(updateStatus(ps1, <<"E","r","r","o","r"," ","o","c","c","u","r","r","e","d",","," ","w","i","l","l"," ","r","e","t","r","y",":"," ">>
                                       \o error.message))
  ELSE Return(ps1, "failed",
              IF isGhRenovateError(error) THEN error.userMessage
              ELSE error.message)

\* waitForChecks(...) entered: poll's first iteration (elapsed 0) invokes the
\* probe at once
StartWaitForChecks(ps, site) == [ps EXCEPT !.pc = "waitChecks", !.site = site]

\* variant: the merge loop allows one more attempt
StartMergeOnceMore(ps, mergeAttempt) ==
  IF mergeAttempt <= maxMergeRetries + 1
  THEN updateStatus([ps EXCEPT !.pc = "mergeFetch",
                               !.mergeAttempt = mergeAttempt],
                    IF mergeAttempt > 1
                    THEN <<"M","e","r","g","i","n","g"," ","(","a","t","t","e","m","p","t"," ">> \o numToString(mergeAttempt)
                         \o <<")",".",".",".">>
                    ELSE <<"M","e","r","g","i","n","g",".",".",".">>)
  ELSE FallThrough([ps EXCEPT !.mergeAttempt = mergeAttempt])

\* the merge loop, lines 271-277: mergePullRequest first fetches the PR
StartMerge(ps, mergeAttempt) ==
  IF mergeAttempt <= maxMergeRetries
  THEN updateStatus([ps EXCEPT !.pc = "mergeFetch",
                               !.mergeAttempt = mergeAttempt],
                    IF mergeAttempt > 1
                    THEN <<"M","e","r","g","i","n","g"," ","(","a","t","t","e","m","p","t"," ">> \o numToString(mergeAttempt)
                         \o <<")",".",".",".">>
                    ELSE <<"M","e","r","g","i","n","g",".",".",".">>)
  ELSE FallThrough([ps EXCEPT !.mergeAttempt = mergeAttempt])

\* Step 7, lines 263-267
Step7(ps, o) ==
  IF o.dryRun
  THEN Return(updateStatus(ps, <<"[","D","R","Y","-","R","U","N","]"," ","W","o","u","l","d"," ","m","e","r","g","e"," ","P","R",".",".",".">>), "merged",
              Undefined)
  ELSE StartMerge(ps, 1)

\* variant: Step 6 announces nothing
Step6Silent(ps) == [ps EXCEPT !.pc = "fetch6"]

\* Step 6, lines 221-222
Step6(ps) ==
  updateStatus([ps EXCEPT !.pc = "fetch6"], <<"F","i","n","a","l"," ","m","e","r","g","e"," ","c","h","e","c","k",".",".",".">>)

\* Step 4, lines 165-166
Step4(ps) ==
  updateStatus([ps EXCEPT !.pc = "reviews"], <<"C","h","e","c","k","i","n","g"," ","r","e","v","i","e","w"," ","s","t","a","t","u","s",".",".",".">>)

\* Step 5, line 178
Step5(ps) == [ps EXCEPT !.pc = "fetch5"]

\* line 121: getPullRequest resolved or rejected
OnFetch1(ps, o, ev) ==
  IF ~ev.ok THEN Catch(ps, ev.err)
  ELSE LET validation == validatePRState(ev.val)
           ps1 == [ps EXCEPT !.freshPR = ev.val]
       IN IF ~validation.valid THEN Return(ps1, "skipped", validation.reason)
          ELSE updateStatus([ps1 EXCEPT !.pc = "checks3"],
                            <<"C","h","e","c","k","i","n","g"," ","C","I"," ","s","t","a","t","u","s",".",".",".">>)

\* variant: a dry run does not wait for pending checks
OnChecks3DrySkips(ps, o, ev) ==
  IF ~ev.ok THEN Catch(ps, ev.err)
  ELSE LET ps1 == [ps EXCEPT !.checksStatus = ev.val]
       IN IF areChecksFailing(ev.val)
          THEN Return(ps1, "skipped",
                      <<"C","I"," ","c","h","e","c","k","s"," ","f","a","i","l","e","d",":"," ">> \o formatFailedChecks(ev.val))
          ELSE IF hasStabilityDaysPending(ev.val)
          THEN Return(ps1, "skipped", <<"W","a","i","t","i","n","g"," ","f","o","r"," ","s","t","a","b","i","l","i","t","y","-","d","a","y","s"," ","(","s","k","i","p","p","e","d",")">>)
          ELSE IF areChecksPending(ev.val) /\ ~o.dryRun
          THEN StartWaitForChecks(
                 updateStatus(ps1, <<"W","a","i","t","i","n","g"," ","f","o","r"," ","C","I"," ","c","h","e","c","k","s",".",".",".">>), "ci")
          ELSE Step4(ps1)

\* line 133: getChecksStatus resolved or rejected
OnChecks3(ps, o, ev) ==
  IF ~ev.ok THEN Catch(ps, ev.err)
  ELSE LET ps1 == [ps EXCEPT !.checksStatus = ev.val]
       IN IF areChecksFailing(ev.val)
          THEN Return(ps1, "skipped",
                      <<"C","I"," ","c","h","e","c","k","s"," ","f","a","i","l","e","d",":"," ">> \o formatFailedChecks(ev.val))
          ELSE IF hasStabilityDaysPending(ev.val)
          THEN Return(ps1, "skipped", <<"W","a","i","t","i","n","g"," ","f","o","r"," ","s","t","a","b","i","l","i","t","y","-","d","a","y","s"," ","(","s","k","i","p","p","e","d",")">>)
          ELSE IF areChecksPending(ev.val)
          THEN StartWaitForChecks(
                 updateStatus(ps1, <<"W","a","i","t","i","n","g"," ","f","o","r"," ","C","I"," ","c","h","e","c","k","s",".",".",".">>), "ci")
          ELSE Step4(ps1)

\* waitForChecks returned {status, passed} to its call site
AfterWaitForChecks(ps, o, status) ==
  LET passed == areChecksPassing(status)
      ps1 == IF ps.site = "late" THEN ps ELSE [ps EXCEPT !.checksStatus = status]
  IN IF ps.site = "ci"
     THEN IF ~passed
          THEN Return(ps1, "skipped",
                      <<"C","I"," ","c","h","e","c","k","s"," ","f","a","i","l","e","d",":"," ">> \o formatFailedChecks(status))
          ELSE Step4(ps1)
     ELSE IF ps.site = "rebase5"
     THEN IF ~passed
          THEN Return(ps1, "skipped", <<"C","I"," ","c","h","e","c","k","s"," ","f","a","i","l","e","d"," ","a","f","t","e","r"," ","r","e","b","a","s","e",":"," ">>
                                      \o formatFailedChecks(status))
          ELSE Step6(ps1)
     ELSE IF ps.site = "rebase6"
     THEN IF ~passed
          THEN Return(ps1, "skipped", <<"C","I"," ","c","h","e","c","k","s"," ","f","a","i","l","e","d"," ","a","f","t","e","r"," ","r","e","b","a","s","e",":"," ">>
                                      \o formatFailedChecks(status))
          ELSE Step7(ps1, o)
     ELSE \* "late", lines 311-320
          IF ~passed
          THEN Return(ps1, "skipped",
                      <<"C","I"," ","c","h","e","c","k","s"," ","f","a","i","l","e","d",":"," ">> \o formatFailedChecks(status))
          ELSE StartMerge(ps1, ps.mergeAttempt + 1)

\* the statusPrefix argument of waitForChecks at its four call sites
statusPrefix(site) ==
  IF site = "ci" THEN <<"W","a","i","t","i","n","g"," ","f","o","r"," ","C","I">>
  ELSE IF site = "late" THEN <<"W","a","i","t","i","n","g"," ","f","o","r"," ","l","a","t","e"," ","c","h","e","c","k","s">>
  ELSE <<"W","a","i","t","i","n","g"," ","f","o","r"," ","C","I"," ","a","f","t","e","r"," ","r","e","b","a","s","e">>

\* poll inside waitForChecks: the probe getChecksStatus resolved or rejected;
\* onPoll (line 78) announces the counts (the elapsed time it appends is not
\* part of the model)
OnWaitChecks(ps, o, ev) ==
  IF ev.ok
  THEN LET ps1 == updateStatus(ps, statusPrefix(ps.site) \o <<":"," ">>
                     \o numToString(ev.val.successful) \o <<"/">>
                     \o numToString(ev.val.total) \o <<" ","p","a","s","s","e","d">>)
       IN IF areChecksFailing(ev.val) \/ areChecksPassing(ev.val)
          THEN AfterWaitForChecks(ps1, o, ev.val)
          ELSE [ps1 EXCEPT !.pc = "waitChecksSleep"]
  ELSE IF ev.late THEN Catch(ps, ev.err)
       ELSE [ps EXCEPT !.pc = "waitChecksSleep"]

\* poll inside waitForChecks: sleep(interval) over, top of the loop
OnWaitChecksSleep(ps, o, ev) ==
  IF ev.late THEN Catch(ps, PollingTimeoutError(<<"C","I"," ","c","h","e","c","k","s">>, o.checkTimeoutMs))
  ELSE [ps EXCEPT !.pc = "waitChecks"]

\* variant: the approval is not guarded by dryRun
OnReviewsAlways(ps, o, ev) ==
  IF ~ev.ok THEN Catch(ps, ev.err)
  ELSE LET ps1 == [ps EXCEPT !.reviewInfo = ev.val @@ [fetched |-> TRUE]]
       IN IF ~ev.val.hasApproval
          THEN updateStatus([ps1 EXCEPT !.pc = "approve"], <<"A","p","p","r","o","v","i","n","g"," ","P","R",".",".",".">>)
          ELSE Step5(ps1)

\* variant: outstanding requested changes hold the approval back
OnReviewsUnlessChangesRequested(ps, o, ev) ==
  IF ~ev.ok THEN Catch(ps, ev.err)
  ELSE LET ps1 == [ps EXCEPT !.reviewInfo = ev.val @@ [fetched |-> TRUE]]
       IN IF ~ev.val.hasApproval /\ ~ev.val.changesRequested
          THEN IF o.dryRun
               THEN Step5(updateStatus(ps1, <<"[","D","R","Y","-","R","U","N","]"," ","W","o","u","l","d"," ","a","p","p","r","o","v","e"," ","P","R",".",".",".">>))
               ELSE updateStatus([ps1 EXCEPT !.pc = "approve"],
                                 <<"A","p","p","r","o","v","i","n","g"," ","P","R",".",".",".">>)
          ELSE Step5(ps1)

\* line 166: getReviewInfo resolved or rejected; lines 168-175
OnReviews(ps, o, ev) ==
  IF ~ev.ok THEN Catch(ps, ev.err)
  ELSE LET ps1 == [ps EXCEPT !.reviewInfo = ev.val @@ [fetched |-> TRUE]]
       IN IF ~ev.val.hasApproval
          THEN IF o.dryRun
               THEN Step5(updateStatus(ps1, <<"[","D","R","Y","-","R","U","N","]"," ","W","o","u","l","d"," ","a","p","p","r","o","v","e"," ","P","R",".",".",".">>))
               ELSE updateStatus([ps1 EXCEPT !.pc = "approve"],
                                 <<"A","p","p","r","o","v","i","n","g"," ","P","R",".",".",".">>)
          ELSE Step5(ps1)

\* line 173: approvePullRequest resolved or rejected
OnApprove(ps, o, ev) ==
  IF ~ev.ok THEN Catch(ps, ev.err) ELSE Step5(ps)

\* triggerRebase returned its method (lines 187/231); poll's first
\* iteration invokes hasNewCommitSince
RebaseTriggered(ps) ==
  updateStatus([ps EXCEPT !.pc = "rebasePoll"],
               <<"R","e","b","a","s","e"," ","t","r","i","g","g","e","r","e","d"," ","v","i","a"," ">>
               \o (IF ps.triggerApi = "issues.createComment" THEN <<"c","o","m","m","e","n","t">>
                   ELSE <<"c","h","e","c","k","b","o","x">>)
               \o <<","," ","w","a","i","t","i","n","g",".",".",".">>)

\* the rebase block of lines 180-218 (site "rebase5") and 224-260 ("rebase6")
\* up to its first await
RebaseOrContinue(ps, o, pr, site) ==
  LET ps1 == [ps EXCEPT !.freshPR = pr]
      ps2 == IF ~needsRebase(pr) THEN ps1
             ELSE IF o.dryRun
             THEN updateStatus(ps1,
                    IF site = "rebase5" THEN <<"[","D","R","Y","-","R","U","N","]"," ","W","o","u","l","d"," ","t","r","i","g","g","e","r"," ","r","e","b","a","s","e",".",".",".">>
                    ELSE <<"[","D","R","Y","-","R","U","N","]"," ","W","o","u","l","d"," ","t","r","i","g","g","e","r"," ","r","e","b","a","s","e"," ","(","P","R"," ","i","s"," ","b","e","h","i","n","d",")",".",".",".">>)
             ELSE updateStatus(ps1,
                    IF site = "rebase5" THEN <<"T","r","i","g","g","e","r","i","n","g"," ","r","e","b","a","s","e",".",".",".">>
                    ELSE <<"P","R"," ","i","s"," ","b","e","h","i","n","d",","," ","t","r","i","g","g","e","r","i","n","g"," ","r","e","b","a","s","e",".",".",".">>)
  IN IF needsRebase(pr) /\ ~o.dryRun
     THEN LET api == triggerRebaseCall(pr)
              ps3 == [ps2 EXCEPT !.previousSha = pr.sha, !.site = site,
                                 !.triggerApi = api]
          IN IF api = "none" THEN RebaseTriggered(ps3)
             ELSE [ps3 EXCEPT !.pc = "rebaseTrigger"]
     ELSE IF site = "rebase5" THEN Step6(ps2) ELSE Step7(ps2, o)

\* line 178: getPullRequest resolved or rejected
OnFetch5(ps, o, ev) ==
  IF ~ev.ok THEN Catch(ps, ev.err) ELSE RebaseOrContinue(ps, o, ev.val, "rebase5")

\* line 222: getPullRequest resolved or rejected
OnFetch6(ps, o, ev) ==
  IF ~ev.ok THEN Catch(ps, ev.err) ELSE RebaseOrContinue(ps, o, ev.val, "rebase6")

\* lines 186/230: triggerRebase's host call resolved or rejected; then poll's
\* first iteration invokes hasNewCommitSince
OnRebaseTrigger(ps, o, ev) ==
  IF ~ev.ok THEN Catch(ps, ev.err) ELSE RebaseTriggered(ps)

\* variant: the rebase poll is done at its first successful probe
OnRebasePollAnyHead(ps, o, ev) ==
  IF ev.ok
  THEN [updateStatus(ps, <<"W","a","i","t","i","n","g"," ","f","o","r"," ","r","e","b","a","s","e">>) EXCEPT !.pc = "rebaseSleep"]
  ELSE IF ev.late THEN Catch(ps, ev.err)
       ELSE [ps EXCEPT !.pc = "rebasePollSleep"]

\* lines 190/233: the probe hasNewCommitSince resolved or rejected; onPoll
\* (lines 196/239) announces the wait (without the elapsed time)
OnRebasePoll(ps, o, ev) ==
  IF ev.ok
  THEN LET ps1 == updateStatus(ps, <<"W","a","i","t","i","n","g"," ","f","o","r"," ","r","e","b","a","s","e">>)
       IN IF hasNewCommitSince(ev.val, ps.previousSha).hasNewCommit
          THEN [ps1 EXCEPT !.pc = "rebaseSleep"]
          ELSE [ps1 EXCEPT !.pc = "rebasePollSleep"]
  ELSE IF ev.late THEN Catch(ps, ev.err)
       ELSE [ps EXCEPT !.pc = "rebasePollSleep"]

\* the rebase poll's sleep(interval) over, top of the loop
OnRebasePollSleep(ps, o, ev) ==
  IF ev.late THEN Catch(ps, PollingTimeoutError(<<"r","e","b","a","s","e">>, o.rebaseTimeoutMs))
  ELSE [ps EXCEPT !.pc = "rebasePoll"]

\* lines 203/246: sleep(3000) over
OnRebaseSleep(ps, o, ev) == [ps EXCEPT !.pc = "rebaseFetch"]

\* lines 204/247: getPullRequest resolved or rejected, then waitForChecks
OnRebaseFetch(ps, o, ev) ==
  IF ~ev.ok THEN Catch(ps, ev.err)
  ELSE StartWaitForChecks([ps EXCEPT !.freshPR = ev.val], ps.site)

\* mergePullRequest, lines 147-179 of github/pulls: its own getPullRequest
\* resolved or rejected; a rejection or a PRStateError is not a
\* MergeBlockedError and reaches the fail-safe catch
OnMergeFetch(ps, o, ev) ==
  IF ~ev.ok THEN Catch(ps, ev.err)
  ELSE LET pr == ev.val
       IN IF pr.merged
          THEN Catch(ps, PRStateError(ps.prNumber, <<"P","R"," ","w","a","s"," ","a","l","r","e","a","d","y"," ","m","e","r","g","e","d">>))
          ELSE IF pr.state = "closed"
          THEN Catch(ps, PRStateError(ps.prNumber, <<"P","R"," ","w","a","s"," ","c","l","o","s","e","d">>))
          ELSE IF pr.mergeableState = <<"d","i","r","t","y">>
          THEN Catch(ps, PRStateError(ps.prNumber,
                 <<"P","R"," ","h","a","s"," ","m","e","r","g","e"," ","c","o","n","f","l","i","c","t","s"," ","t","h","a","t"," ","r","e","q","u","i","r","e"," ","m","a","n","u","a","l"," ","r","e","s","o","l","u","t","i","o","n">>))
          ELSE IF pr.mergeable = "false"
          THEN Catch(ps, PRStateError(ps.prNumber,
                 <<"P","R"," ","i","s"," ","n","o","t"," ","m","e","r","g","e","a","b","l","e"," ","(","s","t","a","t","e",":"," ">> \o pr.mergeableState
                 \o <<")">>))
          ELSE [ps EXCEPT !.pc = "merge"]

\* mergePullRequest, lines 181-214 of github/pulls: client.pulls.merge
\* resolved or rejected; its catch turns a status 405 or 409 into a
\* PRStateError whatever the class of the rejection, and rethrows any other
\* error to the catch of lines 280-334
OnMerge(ps, o, ev) ==
  IF ev.ok THEN Return(ps, "merged", Undefined)
  ELSE IF ev.err.status = 405
  THEN Catch(ps, PRStateError(ps.prNumber,
         <<"P","R"," ","c","a","n","n","o","t"," ","b","e"," ","m","e","r","g","e","d"," ","(","m","e","t","h","o","d"," ","n","o","t"," ","a","l","l","o","w","e","d"," ","o","r"," ","r","e","q","u","i","r","e","m","e","n","t","s"," ","n","o","t"," ","m","e","t",")">>))
  ELSE IF ev.err.status = 409
  THEN Catch(ps, PRStateError(ps.prNumber, <<"M","e","r","g","e"," ","c","o","n","f","l","i","c","t"," ","d","e","t","e","c","t","e","d">>))
  ELSE IF ev.err.cls = "MergeBlockedError"
  THEN updateStatus([ps EXCEPT !.pc = "blockedFetch"],
                    <<"M","e","r","g","e"," ","b","l","o","c","k","e","d",","," ","r","e","-","e","v","a","l","u","a","t","i","n","g"," ","P","R"," ","s","t","a","t","e",".",".",".">>)
  ELSE Catch(ps, ev.err)

\* variant: the re-fetched PR is not looked at
OnBlockedFetchUnchecked(ps, o, ev) ==
  IF ~ev.ok THEN Catch(ps, ev.err)
  ELSE [ps EXCEPT !.freshPR = ev.val, !.pc = "blockedChecks"]

\* line 285: getPullRequest resolved or rejected
OnBlockedFetch(ps, o, ev) ==
  IF ~ev.ok THEN Catch(ps, ev.err)
  ELSE LET ps1 == [ps EXCEPT !.freshPR = ev.val]
       IN IF ev.val.merged THEN Return(ps1, "merged", <<"P","R"," ","w","a","s"," ","a","l","r","e","a","d","y"," ","m","e","r","g","e","d">>)
          ELSE IF ev.val.state = "closed"
          THEN Return(ps1, "skipped", <<"P","R"," ","w","a","s"," ","c","l","o","s","e","d">>)
          ELSE [ps1 EXCEPT !.pc = "blockedChecks"]

\* line 299: getChecksStatus resolved or rejected
OnBlockedChecks(ps, o, ev) ==
  IF ~ev.ok THEN Catch(ps, ev.err)
  ELSE LET ps1 == [ps EXCEPT !.checksStatus = ev.val]
       IN IF hasStabilityDaysPending(ev.val)
          THEN Return(ps1, "skipped", <<"W","a","i","t","i","n","g"," ","f","o","r"," ","s","t","a","b","i","l","i","t","y","-","d","a","y","s"," ","(","s","k","i","p","p","e","d",")">>)
          ELSE IF areChecksPending(ev.val)
          THEN StartWaitForChecks(
                 updateStatus(ps1, <<"N","e","w"," ","c","h","e","c","k","s"," ","d","e","t","e","c","t","e","d",","," ","w","a","i","t","i","n","g",".",".",".">>), "late")
          ELSE IF needsRebase(ps.freshPR)
          THEN Catch(ps1, PlainError(<<"P","R"," ","n","e","e","d","s"," ","r","e","b","a","s","e"," ","a","f","t","e","r"," ","m","e","r","g","e"," ","a","t","t","e","m","p","t">>))
          ELSE Catch(ps1, MergeBlockedError(ps.prNumber))

\* line 116: sleep(2000) over, the attempt starts with getPullRequest
OnRetrySleep(ps, o, ev) ==
  updateStatus([ps EXCEPT !.pc = "fetch1"], <<"F","e","t","c","h","i","n","g"," ","l","a","t","e","s","t"," ","P","R"," ","d","a","t","a",".",".",".">>)

\* the log of head commits of one attempt, kept beside the frame: f is the
\* frame that Step made of ps on the event ev.  passedShas holds the sha
\* arguments (freshPR.head.sha) of the getChecksStatus calls that resolved
\* to a passing status, polledSha is the head sha that hasNewCommitSince
\* last read and rebasedSha the head sha fetched after the rebase (lines
\* 204/247); a new attempt starts with an empty log, a new trigger forgets
\* the last rebase
Seen(ps, ev, f) ==
  IF f.attempt # ps.attempt THEN f
  ELSE IF ps.pc \in {"checks3", "waitChecks", "blockedChecks"}
  THEN IF ev.ok /\ areChecksPassing(ev.val)
       THEN [f EXCEPT !.passedShas = @ \cup {ps.freshPR.sha}] ELSE f
  ELSE IF ps.pc \in {"fetch5", "fetch6"} /\ f.pc \in {"rebaseTrigger", "rebasePoll"}
  THEN [f EXCEPT !.polledSha = "", !.rebasedSha = ""]
  ELSE IF ps.pc = "rebasePoll" /\ ev.ok
  THEN [f EXCEPT !.polledSha = ev.val.sha]
  ELSE IF ps.pc = "rebaseFetch" /\ ev.ok
  THEN [f EXCEPT !.rebasedSha = ev.val.sha]
  ELSE f

\* processSinglePR resumed at its current await with the event ev
Step(ps, o, ev) ==
  LET ps0 == [ps EXCEPT !.out = <<>>, !.caught = NoError] IN
  CASE ps.pc = "retrySleep"      -> OnRetrySleep(ps0, o, ev)
    [] ps.pc = "fetch1"          -> OnFetch1(ps0, o, ev)
    [] ps.pc = "checks3"         -> OnChecks3(ps0, o, ev)
    [] ps.pc = "waitChecks"      -> OnWaitChecks(ps0, o, ev)
    [] ps.pc = "waitChecksSleep" -> OnWaitChecksSleep(ps0, o, ev)
    [] ps.pc = "reviews"         -> OnReviews(ps0, o, ev)
    [] ps.pc = "approve"         -> OnApprove(ps0, o, ev)
    [] ps.pc = "fetch5"          -> OnFetch5(ps0, o, ev)
    [] ps.pc = "fetch6"          -> OnFetch6(ps0, o, ev)
    [] ps.pc = "rebaseTrigger"   -> OnRebaseTrigger(ps0, o, ev)
    [] ps.pc = "rebasePoll"      -> OnRebasePoll(ps0, o, ev)
    [] ps.pc = "rebasePollSleep" -> OnRebasePollSleep(ps0, o, ev)
    [] ps.pc = "rebaseSleep"     -> OnRebaseSleep(ps0, o, ev)
    [] ps.pc = "rebaseFetch"     -> OnRebaseFetch(ps0, o, ev)
    [] ps.pc = "mergeFetch"      -> OnMergeFetch(ps0, o, ev)
    [] ps.pc = "merge"           -> OnMerge(ps0, o, ev)
    [] ps.pc = "blockedFetch"    -> OnBlockedFetch(ps0, o, ev)
    [] ps.pc = "blockedChecks"   -> OnBlockedChecks(ps0, o, ev)


(***************************************************************************)
(* utils/poller: poll(fn, options) as a frame suspended at `await fn()`    *)
(* or at `await sleep(interval)`.  Times are in milliseconds; the clock    *)
(* is Date.now(): it advances by the time a probe takes and by the length  *)
(* of a sleep.                                                             *)
(***************************************************************************)
\* what the probe fn can resolve to
ProbeResults == {"r1", "r2"}

\* what options.condition can return
PollingConditionResults == {"continue", "done", "abort"}

\* the condition functions of the model: one never stops, one is done on
\* r1, one aborts on r1, one is done on r2 and aborts on r1
Conditions ==
  { [r \in ProbeResults |-> "continue"],
    [r \in ProbeResults |-> IF r = "r1" THEN "done" ELSE "continue"],
    [r \in ProbeResults |-> IF r = "r1" THEN "abort" ELSE "continue"],
    [r \in ProbeResults |-> IF r = "r1" THEN "abort" ELSE "done"] }

\* options.intervalAdjuster: absent, or (result, currentInterval) =>
\* currentInterval * 3
IntervalAdjusters == {"undefined", "triple"}

\* <<initialIntervalMs, maxIntervalMs>>: with these, interval * 1.2 is an
\* integer or exceeds maxIntervalMs
IntervalPairs == { <<5, 6>>, <<10, 12>>, <<10, 5>> }

TimeoutValues == {0, 12, 20}

\* how long one invocation of the probe takes
ProbeTimes == {0, 3, 20}

\* what the probe can reject with: an error of its own, or the timeout of
\* a poll it ran itself
ProbeErrors ==
  { PlainError(<<"b","o","o","m">>), PollingTimeoutError(<<"i","n","n","e","r">>, 5) }

\* options.onPoll when it is supplied: a callback that returns, or one that
\* throws
Observers == {"returns", "throws"}

\* what a throwing onPoll throws
ObserverError == PlainError(<<"o","b","s","e","r","v","e","r"," ","f","a","i","l","e","d">>)

\* the options of a poll without onPoll
PollerOptions ==
  { [initialIntervalMs |-> p[1], maxIntervalMs |-> p[2], timeoutMs |-> t,
     condition |-> c, intervalAdjuster |-> a, onPoll |-> "undefined",
     operationName |-> <<"o","p">>] :
    p \in IntervalPairs, t \in TimeoutValues, c \in Conditions,
    a \in IntervalAdjusters }

\* Math.min
Min(a, b) == IF a <= b THEN a ELSE b

\* poll is not running
IdlePoll == [pc |-> "idle"]

\* the top of the while loop, lines 59-69: the timeout test, then the probe
\* is invoked
PollTop(po) ==
  LET elapsed == po.now - po.startTime
  IN IF elapsed >= po.options.timeoutMs
     THEN [po EXCEPT !.pc = "thrown", !.elapsed = elapsed,
                     !.error = PollingTimeoutError(po.options.operationName,
                                                   po.options.timeoutMs)]
     ELSE [po EXCEPT !.pc = "probe", !.elapsed = elapsed,
                     !.probes = po.probes + 1]

\* poll(fn, options) called at time startTime, up to its first await
NewPoll(options, startTime) ==
  PollTop([pc |-> "entry", options |-> options, startTime |-> startTime,
           now |-> startTime, elapsed |-> 0,
           interval |-> options.initialIntervalMs, lastResult |-> "undefined",
           probes |-> 0, polls |-> 0, aborts |-> 0, sleeps |-> 0,
           probeTime |-> 0,
           settled |-> "none", fnError |-> NoError, value |-> "undefined",
           error |-> NoError])

\* variant: the interval is not capped before the sleep
PollSleepUncapped(po) ==
  [po EXCEPT !.pc = "sleep", !.sleeps = po.sleeps + 1]

\* lines 99-101: the interval is capped and the sleep begins
PollSleep(po) ==
  [po EXCEPT !.pc = "sleep",
             !.interval = Min(po.interval, po.options.maxIntervalMs),
             !.sleeps = po.sleeps + 1]

\* variant: the catch rethrows every error
PollCatchRethrows(po, error) ==
  [po EXCEPT !.pc = "thrown", !.error = error]

\* catch (error), lines 87-97
PollCatch(po, error) ==
  IF error.cls = "PollingTimeoutError"
  THEN [po EXCEPT !.pc = "thrown", !.error = error]
  ELSE IF po.now - po.startTime >= po.options.timeoutMs
  THEN [po EXCEPT !.pc = "thrown", !.error = error]
  ELSE PollSleep(po)

\* lines 80-86: the next interval
NextInterval(po) ==
  IF po.options.intervalAdjuster = "triple" THEN po.interval * 3
  ELSE Min((po.interval * 6) \div 5, po.options.maxIntervalMs)

\* variant: 'done' counts only for a result seen twice in a row
OnProbeResultTwice(po, result, took) ==
  LET po1 == [po EXCEPT !.now = po.now + took,
                        !.probeTime = po.probeTime + took,
                        !.settled = "resolved", !.fnError = NoError,
                        !.lastResult = result,
                        !.polls = po.polls + 1]
      conditionResult == po.options.condition[result]
  IN IF po.options.onPoll = "throws"
     THEN PollCatch(po1, ObserverError)
     ELSE IF conditionResult = "done" /\ po.lastResult = result
     THEN [po1 EXCEPT !.pc = "returned", !.value = result]
     ELSE IF conditionResult = "abort"
     THEN PollCatch([po1 EXCEPT !.aborts = po.aborts + 1],
                    PlainError(<<"P","o","l","l","i","n","g"," ","a","b","o","r","t","e","d"," ","f","o","r"," ">>
                                 \o po.options.operationName))
     ELSE PollSleep([po1 EXCEPT !.interval = NextInterval(po1)])

\* lines 69-86: fn() resolved to result after taking took ms; onPoll, when
\* supplied, is called inside the try (line 70)
OnProbeResult(po, result, took) ==
  LET po1 == [po EXCEPT !.now = po.now + took,
                        !.probeTime = po.probeTime + took,
                        !.settled = "resolved", !.fnError = NoError,
                        !.lastResult = result,
                        !.polls = po.polls + 1]
      conditionResult == po.options.condition[result]
  IN IF po.options.onPoll = "throws"
     THEN PollCatch(po1, ObserverError)
     ELSE IF conditionResult = "done"
     THEN [po1 EXCEPT !.pc = "returned", !.value = result]
     ELSE IF conditionResult = "abort"
     THEN PollCatch([po1 EXCEPT !.aborts = po.aborts + 1],
                    PlainError(<<"P","o","l","l","i","n","g"," ","a","b","o","r","t","e","d"," ","f","o","r"," ">>
                                 \o po.options.operationName))
     ELSE PollSleep([po1 EXCEPT !.interval = NextInterval(po1)])

\* line 69: fn() rejected with error after taking took ms
OnProbeError(po, error, took) ==
  PollCatch([po EXCEPT !.now = po.now + took,
                       !.probeTime = po.probeTime + took,
                       !.settled = "rejected", !.fnError = error],
            error)

\* line 101: sleep(interval) is over, then the top of the loop
OnPollSleep(po) ==
  PollTop([po EXCEPT !.now = po.now + po.interval, !.settled = "none",
                     !.fnError = NoError])

(***************************************************************************)
(* utils/retry: withRetry(fn, options) as a frame suspended at             *)
(* `await fn()` or at `await sleep(delay)`                                 *)
(***************************************************************************)
\* two decimal digits / three decimal digits of a number
Pad2(n) ==
  << DigitChars[((n \div 10) % 10) + 1], DigitChars[(n % 10) + 1] >>

Pad3(n) == << DigitChars[((n \div 100) % 10) + 1] >> \o Pad2(n)

\* Date.prototype.toISOString, for a time within the first hour of the epoch
toISOString(ms) ==
  <<"1","9","7","0","-","0","1","-","0","1","T","0","0",":">> \o Pad2(ms \div 60000) \o <<":">>
  \o Pad2((ms \div 1000) % 60) \o <<".">> \o Pad3(ms % 1000) \o <<"Z">>

\* new RateLimitError(resetAt, remaining); its userMessage is a getter
RateLimitError(resetAt) ==
  [cls |-> "RateLimitError",
   message |-> <<"R","a","t","e"," ","l","i","m","i","t"," ","e","x","c","e","e","d","e","d","."," ","R","e","s","e","t","s"," ","a","t"," ">> \o toISOString(resetAt),
   userMessage |-> OnRead, status |-> 0, resetAt |-> resetAt]

\* `${n}` for an integer
intToString(n) == IF n < 0 THEN <<"-">> \o numToString(-n) ELSE numToString(n)

\* error.userMessage read at time now: the getter of RateLimitError
\* (errors/types lines 75-78) computes Math.ceil((resetAt - Date.now()) /
\* 1000), every other class holds a value
userMessageAt(error, now) ==
  IF error.cls = "RateLimitError"
  THEN <<"G","i","t","H","u","b"," ","r","a","t","e"," ","l","i","m","i","t"," ","r","e","a","c","h","e","d","."," ","W","a","i","t","i","n","g"," ">>
       \o intToString(-((now - error.resetAt) \div 1000))
       \o <<"s"," ","f","o","r"," ","r","e","s","e","t",".",".",".">>
  ELSE error.userMessage

\* isRecoverableError(error): the recoverable field of the tool's own errors
isRecoverableError(error) == error.cls \in {"RateLimitError", "NetworkError"}

\* isTransientError(error)
isTransientError(error) ==
  \/ isRecoverableError(error)
  \/ \E sub \in { <<"e","c","o","n","n","r","e","s","e","t">>, <<"e","t","i","m","e","d","o","u","t">>, <<"s","o","c","k","e","t"," ","h","a","n","g"," ","u","p">>,
                  <<"n","e","t","w","o","r","k">>, <<"f","e","t","c","h"," ","f","a","i","l","e","d">> } :
       includes(toLowerCase(error.message), sub)
  \/ error.status >= 500
  \/ error.status = 429

\* what the operation fn can resolve to
RetryValues == {"v"}

\* what the operation fn can reject with
RetryErrors ==
  { PlainError(<<"b","o","o","m">>), PlainError(<<"s","o","c","k","e","t"," ","h","a","n","g"," ","u","p">>),
    HttpError(503, <<"S","e","r","v","i","c","e"," ","U","n","a","v","a","i","l","a","b","l","e">>), RateLimitError(40) }

MaxAttemptsValues == {0, 1, 3, 4}

\* <<initialDelayMs, maxDelayMs>>
DelayPairs == { <<10, 30>>, <<20, 30>>, <<50, 30>> }

BackoffMultipliers == {1, 2}

\* options.retryCondition: absent, or a constant predicate
RetryConditions == {"undefined", "always", "never"}

\* DEFAULT_OPTIONS, lines 23-28
DEFAULT_OPTIONS ==
  [maxAttempts |-> 3, initialDelayMs |-> 1000, maxDelayMs |-> 30000,
   backoffMultiplier |-> 2, retryCondition |-> "undefined"]

RetryOptions ==
  { [maxAttempts |-> m, initialDelayMs |-> d[1], maxDelayMs |-> d[2],
     backoffMultiplier |-> b, retryCondition |-> c] :
    m \in MaxAttemptsValues, d \in DelayPairs, b \in BackoffMultipliers,
    c \in RetryConditions } \cup {DEFAULT_OPTIONS}

\* withRetry is not running
IdleRetry == [pc |-> "idle"]

\* lastError before the first failure
NoLastError == [cls |-> "undefined", message |-> <<>>,
                userMessage |-> Undefined, status |-> 0]

\* Math.max
Max(a, b) == IF a >= b THEN a ELSE b

\* variant: the loop stops one attempt early
RetryLoopOneShort(wr) ==
  IF wr.attempt < wr.opts.maxAttempts
  THEN [wr EXCEPT !.pc = "call", !.calls = wr.calls + 1]
  ELSE [wr EXCEPT !.pc = "thrown", !.error = wr.lastError]

\* the test of the for loop, line 76, and `return await fn()`; line 110
\* when the loop is over
RetryLoop(wr) ==
  IF wr.attempt <= wr.opts.maxAttempts
  THEN [wr EXCEPT !.pc = "call", !.calls = wr.calls + 1]
  ELSE [wr EXCEPT !.pc = "thrown", !.error = wr.lastError]

\* withRetry(fn, options) called at time now, up to its first await
NewRetry(options, now) ==
  RetryLoop([pc |-> "entry", opts |-> options, attempt |-> 1,
             delay |-> options.initialDelayMs, lastError |-> NoLastError,
             now |-> now, calls |-> 0, sleeps |-> <<>>, retries |-> <<>>,
             fnError |-> NoError, value |-> "undefined", error |-> NoError])

\* line 78: fn() resolved
OnRetryValue(wr, value) ==
  [wr EXCEPT !.pc = "returned", !.value = value, !.fnError = NoError]

\* variant: the predicate is not consulted
OnRetryErrorUnconditional(wr, error) ==
  LET wr1 == [wr EXCEPT !.lastError = error, !.fnError = error]
  IN IF wr.attempt = wr.opts.maxAttempts
     THEN [wr1 EXCEPT !.pc = "thrown", !.error = error]
     ELSE [wr1 EXCEPT !.pc = "sleep",
                      !.retries = Append(wr.retries, <<wr.attempt, wr.delay>>),
                      !.sleeps = Append(wr.sleeps, wr.delay)]

\* catch (error), lines 79-103: fn() rejected
OnRetryError(wr, error) ==
  LET wr1 == [wr EXCEPT !.lastError = error, !.fnError = error]
      shouldRetry == IF wr.opts.retryCondition = "always" THEN TRUE
                     ELSE IF wr.opts.retryCondition = "never" THEN FALSE
                     ELSE isTransientError(error)
      delay == IF error.cls = "RateLimitError"
               THEN Max(0, error.resetAt - wr.now) + 1000
               ELSE wr.delay
  IN IF ~shouldRetry THEN [wr1 EXCEPT !.pc = "thrown", !.error = error]
     ELSE IF wr.attempt = wr.opts.maxAttempts
     \* break, then line 110
     THEN [wr1 EXCEPT !.pc = "thrown", !.error = error]
     ELSE [wr1 EXCEPT !.pc = "sleep", !.delay = delay,
                      !.retries = Append(wr.retries, <<wr.attempt, delay>>),
                      !.sleeps = Append(wr.sleeps, delay)]

\* lines 103-106: sleep(delay) is over, the delay grows, the next attempt
OnRetrySlept(wr) ==
  RetryLoop([wr EXCEPT !.now = wr.now + wr.delay,
                       !.delay = Min(wr.delay * wr.opts.backoffMultiplier,
                                     wr.opts.maxDelayMs),
                       !.attempt = wr.attempt + 1,
                       !.fnError = NoError])

(***************************************************************************)
(* The repository host: what its endpoints can answer                      *)
(***************************************************************************)
Snapshot(number, state, merged, draft, mergeable, mergeableState, sha, body) ==
  [number |-> number, state |-> state, merged |-> merged, draft |-> draft,
   mergeable |-> mergeable, mergeableState |-> mergeableState, sha |-> sha,
   body |-> body]

BodyUnchecked == <<"-"," ","["," ","]"," ","<","!","-","-"," ","r","e","b","a","s","e","-","c","h","e","c","k"," ","-","-",">">>

BodyChecked == <<"-"," ","[","X","]"," ","<","!","-","-"," ","r","e","b","a","s","e","-","c","h","e","c","k"," ","-","-",">">>

\* pulls.get answers explored for a batch of one PR
SnapshotsFull(n) ==
  { Snapshot(n, "open", FALSE, FALSE, "true", <<"c","l","e","a","n">>, "sha1", BodyUnchecked),
    Snapshot(n, "open", FALSE, FALSE, "true", <<"c","l","e","a","n">>, "sha2", BodyUnchecked),
    Snapshot(n, "open", FALSE, FALSE, "true", <<"b","e","h","i","n","d">>, "sha1", BodyUnchecked),
    Snapshot(n, "open", FALSE, FALSE, "true", <<"b","e","h","i","n","d">>, "sha1", BodyChecked),
    Snapshot(n, "open", FALSE, FALSE, "null", <<"b","e","h","i","n","d">>, "sha1", Null),
    Snapshot(n, "open", FALSE, FALSE, "false", <<"d","i","r","t","y">>, "sha1", BodyUnchecked),
    Snapshot(n, "open", FALSE, FALSE, "false", <<"b","l","o","c","k","e","d">>, "sha1", BodyUnchecked),
    Snapshot(n, "open", FALSE, TRUE, "true", <<"c","l","e","a","n">>, "sha1", BodyUnchecked),
    Snapshot(n, "closed", FALSE, FALSE, "null", <<"u","n","k","n","o","w","n">>, "sha1", BodyUnchecked),
    Snapshot(n, "closed", TRUE, FALSE, "null", <<"u","n","k","n","o","w","n">>, "sha1", BodyUnchecked) }

\* with a draft that also has conflicts
SnapshotsWide(n) ==
  SnapshotsFull(n) \cup
  { Snapshot(n, "open", FALSE, TRUE, "false", <<"d","i","r","t","y">>, "sha1", BodyUnchecked) }

\* pulls.get answers explored for longer batches
SnapshotsBasic(n) ==
  { Snapshot(n, "open", FALSE, FALSE, "true", <<"c","l","e","a","n">>, "sha1", BodyUnchecked),
    Snapshot(n, "closed", FALSE, FALSE, "null", <<"u","n","k","n","o","w","n">>, "sha1", BodyUnchecked) }

CheckRun(name, status, conclusion) ==
  [name |-> name, status |-> status, conclusion |-> conclusion]

CommitStatus(context, state) == [context |-> context, state |-> state]

\* checks.listForRef answers
CheckRunsFull ==
  { << CheckRun(<<"b","u","i","l","d">>, "completed", <<"s","u","c","c","e","s","s">>) >>,
    << CheckRun(<<"b","u","i","l","d">>, "in_progress", Null) >>,
    << CheckRun(<<"b","u","i","l","d">>, "completed", <<"f","a","i","l","u","r","e">>) >>,
    << CheckRun(<<"b","u","i","l","d">>, "completed", <<"a","c","t","i","o","n","_","r","e","q","u","i","r","e","d">>) >> }

\* with two failed check runs
CheckRunsWide ==
  CheckRunsFull \cup
  { << CheckRun(<<"b","u","i","l","d">>, "completed", <<"f","a","i","l","u","r","e">>),
       CheckRun(<<"l","i","n","t">>, "completed", <<"t","i","m","e","d","_","o","u","t">>) >> }

CheckRunsBasic ==
  { << CheckRun(<<"b","u","i","l","d">>, "completed", <<"s","u","c","c","e","s","s">>) >>,
    << CheckRun(<<"b","u","i","l","d">>, "completed", <<"f","a","i","l","u","r","e">>) >> }

\* repos.getCombinedStatusForRef answers
StatusesFull ==
  { <<>>, << CommitStatus(<<"r","e","n","o","v","a","t","e","/","s","t","a","b","i","l","i","t","y","-","d","a","y","s">>, <<"p","e","n","d","i","n","g">>) >> }

StatusesBasic == { <<>> }

Review(login, state) == [login |-> login, state |-> state]

\* pulls.listReviews answers
ReviewsFull ==
  { <<>>,
    << Review("alice", "APPROVED") >>,
    << Review("alice", "APPROVED"), Review("alice", "CHANGES_REQUESTED") >> }

ReviewsBasic == { <<>>, << Review("alice", "APPROVED") >> }

\* rejections of a host call
HostErrorsFull ==
  { HttpError(404, <<"N","o","t"," ","F","o","u","n","d">>), HttpError(500, <<"S","e","r","v","e","r"," ","E","r","r","o","r">>) }

HostErrorsFaulty == { HttpError(500, <<"S","e","r","v","e","r"," ","E","r","r","o","r">>) }

\* rejections of pulls.merge
MergeErrorsFull(n) ==
  { MergeBlockedError(n), HttpError(405, <<"M","e","t","h","o","d"," ","N","o","t"," ","A","l","l","o","w","e","d">>),
    HttpError(409, <<"C","o","n","f","l","i","c","t">>), HttpError(500, <<"S","e","r","v","e","r"," ","E","r","r","o","r">>) }

MergeErrorsBasic(n) == { MergeBlockedError(n) }

\* the endpoints
ReadApis ==
  {"pulls.get", "checks.listForRef", "repos.getCombinedStatusForRef",
   "pulls.listReviews"}

MutatingApis ==
  {"pulls.createReview", "pulls.update", "issues.createComment", "pulls.merge"}

\* the fulfilled values of an endpoint under a host profile:
\* "basic" and "faulty" answer alike, "full" answers everything modelled,
\* "prompt" answers like "full" and a little more
HostValues(api, n, profile) ==
  LET full == profile \in {"full", "prompt", "watched"}
  IN CASE api = "pulls.get" ->
            IF profile = "prompt" THEN SnapshotsWide(n)
            ELSE IF full THEN SnapshotsFull(n) ELSE SnapshotsBasic(n)
       [] api = "checks.listForRef" ->
            IF profile = "prompt" THEN CheckRunsWide
            ELSE IF full THEN CheckRunsFull ELSE CheckRunsBasic
       [] api = "repos.getCombinedStatusForRef" ->
            IF full THEN StatusesFull ELSE StatusesBasic
       [] api = "pulls.listReviews" -> IF full THEN ReviewsFull ELSE ReviewsBasic
       [] OTHER -> {"ok"}

\* the rejections of an endpoint under a host profile: "basic" refuses
\* merges only, "faulty" also fails requests, "prompt" rejects like "full",
\* "watched" answers like "full" and refuses merges only
HostErrors(api, n, profile) ==
  IF api = "pulls.merge"
  THEN IF profile \in {"full", "prompt"} THEN MergeErrorsFull(n)
       ELSE MergeErrorsBasic(n)
  ELSE IF profile \in {"full", "prompt"} THEN HostErrorsFull
  ELSE IF profile = "faulty" THEN HostErrorsFaulty
  ELSE {}

(***************************************************************************)
(* github/checks applied to host responses of up to MaxChecks check runs   *)
(* and at most one commit status                                           *)
(***************************************************************************)
MaxChecks == 2

\* the names of the stability-days check: as in IGNORED_PENDING_CHECKS, and
\* in another spelling
StabilityNames == { <<"r","e","n","o","v","a","t","e","/","s","t","a","b","i","l","i","t","y","-","d","a","y","s">>, <<"S","t","a","b","i","l","i","t","y","-","D","a","y","s">> }

\* a check run of the checks API: completed with a conclusion, or not
\* completed and without one
CheckRunValues ==
  { CheckRun(<<"b","u","i","l","d">>, "completed", c) :
      c \in { <<"s","u","c","c","e","s","s">>, <<"n","e","u","t","r","a","l">>, <<"f","a","i","l","u","r","e">>, <<"t","i","m","e","d","_","o","u","t">>,
              <<"a","c","t","i","o","n","_","r","e","q","u","i","r","e","d">> } }
  \cup { CheckRun(<<"b","u","i","l","d">>, s, Null) : s \in {"queued", "in_progress"} }
  \cup { CheckRun(n, "in_progress", Null) : n \in StabilityNames }
  \cup { CheckRun(n, "completed", <<"s","u","c","c","e","s","s">>) : n \in StabilityNames }

\* a commit status of the statuses API
CommitStatusValues ==
  { CommitStatus(<<"b","u","i","l","d">>, s) :
      s \in { <<"s","u","c","c","e","s","s">>, <<"f","a","i","l","u","r","e">>, <<"e","r","r","o","r">>, <<"p","e","n","d","i","n","g">> } }
  \cup { CommitStatus(n, s) :
           n \in StabilityNames, s \in { <<"s","u","c","c","e","s","s">>, <<"p","e","n","d","i","n","g">> } }

\* sequences of up to n elements of S
SeqsUpTo(S, n) == UNION { [1..k -> S] : k \in 0..n }

\* no check status has been asked for
IdleChecks == [pc |-> "idle"]

\* no review info has been asked for
IdleReviews == [pc |-> "idle"]

\* pulls.listReviews answers with up to MaxReviews reviews
MaxReviews == 3

\* the reviews a response can list: by one of two users or with no user
\* (login ""), in any of the states the host reports
ReviewValues ==
  { Review(login, state) :
      login \in {"alice", "bob", ""},
      state \in {"APPROVED", "CHANGES_REQUESTED", "DISMISSED", "COMMENTED",
                 "PENDING"} }

(***************************************************************************)
(* operations/orchestrator: orchestrateMerge                               *)
(***************************************************************************)
VARIABLES
  prs,               \* the input list (PR numbers, in the caller's order)
  opts,              \* { ...DEFAULT_OPTIONS, ...options }
  onAskContinue,     \* TRUE iff the caller supplied _onAskContinue
  host,              \* the host profile: "basic", "faulty", "full", "prompt"
                     \* or "watched"
  opc,               \* position in orchestrateMerge
  allPRs,            \* the work queue
  deferredPRs,       \* PRs deferred for a second pass
  retriedPRNumbers,  \* numbers already requeued once
  results,           \* outcome records, in the order they were pushed
  pr,                \* the PR dequeued last (0 before the first)
  isRetry,           \* retriedPRNumbers.has(pr.number) at its dequeue
  result,            \* what the last processSinglePR returned
  ps,                \* the frame of the running processSinglePR, or of the
                     \* one that returned last
  pending,           \* host calls in flight that the code awaits
  orphans,           \* host calls in flight whose promise nobody awaits
  active,            \* PRs whose processSinglePR has not returned
  passes,            \* number of progressions started, per PR number
  deferLog,          \* every PR number pushed on deferredPRs, in order
  askCalls,          \* invocations of the continue callback
  twin,              \* a live and a dry-run processSinglePR side by side
  po,                \* the frame of a poll(fn, options) run on its own
  wr,                \* the frame of a withRetry(fn, options) run on its own
  cs,                \* a getChecksStatus call on its own: the two host
                     \* responses and the status built from them
  observed,          \* the frame of a second poll, called with onPoll and
                     \* otherwise as po, whose probe answers as po's
  rv                 \* a getReviewInfo call on its own

\* the state of orchestrateMerge
orchestratorVars ==
  <<prs, opts, onAskContinue, host, opc, allPRs, deferredPRs,
    retriedPRNumbers, results, pr, isRetry, result, ps, pending,
    orphans, active, passes, deferLog, askCalls, twin>>

\* the utilities run on their own
utilVars == <<po, wr, cs, observed, rv>>

vars == <<orchestratorVars, utilVars>>

\* what the steps of orchestrateMerge never change
callVars == <<prs, opts, onAskContinue, host, twin, utilVars>>

\* DEFAULT_OPTIONS merged with the caller's overrides
Options(dryRun, continueOnError) ==
  [checkTimeoutMs |-> checkTimeoutMs, rebaseTimeoutMs |-> rebaseTimeoutMs,
   mergeMethod |-> "squash", continueOnError |-> continueOnError,
   dryRun |-> dryRun]

\* variant: a stability-days wait is retried too
RetriablePatternsWide ==
  { <<"c","i"," ","c","h","e","c","k","s"," ","f","a","i","l","e","d">>, <<"m","e","r","g","e"," ","b","l","o","c","k","e","d">>, <<"n","e","e","d","s"," ","r","e","b","a","s","e">>, <<"t","i","m","e","o","u","t">>,
    <<"s","t","a","b","i","l","i","t","y","-","d","a","y","s">> }

\* the patterns isRetriableReason looks for
RetriablePatterns ==
  { <<"c","i"," ","c","h","e","c","k","s"," ","f","a","i","l","e","d">>, <<"m","e","r","g","e"," ","b","l","o","c","k","e","d">>, <<"n","e","e","d","s"," ","r","e","b","a","s","e">>, <<"t","i","m","e","o","u","t">> }

\* the patterns found in reason.toLowerCase()
MatchedPatterns(reason) ==
  IF reason = Undefined \/ reason = <<>> THEN {}
  ELSE LET lowerReason == toLowerCase(reason)
       IN {p \in RetriablePatterns : includes(lowerReason, p)}

\* isRetriableReason(reason)
isRetriableReason(reason) == MatchedPatterns(reason) # {}

\* variant: the retry test inverted
ShouldDeferOnRetry(retry, r) ==
  /\ r.status \in {"skipped", "failed"}
  /\ retry
  /\ isRetriableReason(r.reason)

\* line 422: !isRetry && isRetriableReason(result.reason), for a skipped or
\* failed result
ShouldDefer(retry, r) ==
  /\ r.status \in {"skipped", "failed"}
  /\ ~retry
  /\ isRetriableReason(r.reason)

\* variant: a skipped outcome gets no record
RecordUnlessSkipped(records, r) ==
  IF r.status = "skipped" THEN records ELSE Append(records, r)

\* variant: results.unshift(result)
RecordFirst(records, r) == <<r>> \o records

\* results.push(result)
Record(records, r) == Append(records, r)

\* line 437: allPRs.length > 0 || deferredPRs.length > 0
NeedsPause(queue, deferred) == queue # <<>> \/ deferred # <<>>

\* variant: the deferred list is never requeued
ShouldRequeueNever(queue, deferred) == queue = <<>> /\ deferred = <<>>

\* line 442: allPRs.length === 0 && deferredPRs.length > 0
ShouldRequeue(queue, deferred) == queue = <<>> /\ deferred # <<>>

\* variant: the requeued numbers are not remembered
MarkRetriedNone(retried, deferred) == retried

\* lines 443-445: retriedPRNumbers.add(pr.number) for each deferred PR
MarkRetried(retried, deferred) ==
  retried \cup {deferred[i] : i \in 1..Len(deferred)}

\* the frame when no processSinglePR is running
IdleFrame == [NewFrame(0) EXCEPT !.pc = "idle"]

\* the host calls the frame awaits at its pc
CallsAt(f) ==
  CASE f.pc \in {"fetch1", "fetch5", "fetch6", "rebaseFetch", "mergeFetch",
                 "blockedFetch", "rebasePoll"} -> {"pulls.get"}
    [] f.pc \in {"checks3", "waitChecks", "blockedChecks"} ->
         {"checks.listForRef", "repos.getCombinedStatusForRef"}
    [] f.pc = "reviews" -> {"pulls.listReviews"}
    [] f.pc = "approve" -> {"pulls.createReview"}
    [] f.pc = "rebaseTrigger" -> {f.triggerApi}
    [] f.pc = "merge" -> {"pulls.merge"}
    [] OTHER -> {}

\* the frame is suspended in a sleep
Sleeping(f) ==
  f.pc \in {"retrySleep", "waitChecksSleep", "rebasePollSleep", "rebaseSleep"}

\* the frame's await sits inside poll, where the clock is compared
InPoll(f) ==
  f.pc \in {"waitChecks", "waitChecksSleep", "rebasePoll", "rebasePollSleep"}

\* the number of PRs dequeued so far
RECURSIVE SumTo(_, _)
SumTo(f, n) == IF n = 0 THEN 0 ELSE f[n] + SumTo(f, n - 1)

Dequeued(p) == SumTo(p, MaxPRs)

\* host calls issued for PR n, dequeued at position pos
Calls(n, pos, apis) == {[pr |-> n, pos |-> pos, api |-> a] : a \in apis}

Fulfilled(val, late) ==
  [ok |-> TRUE, val |-> val, err |-> PlainError(<<>>), late |-> late]

Rejected(err, late) == [ok |-> FALSE, val |-> "none", err |-> err, late |-> late]

\* getPullRequest's catch: a 404 becomes PR_NOT_FOUND, anything else is
\* rethrown; hasNewCommitSince calls pulls.get without that catch
PullsGetError(f, err) ==
  IF f.pc # "rebasePoll" /\ err.status = 404
  THEN PRStateError(f.prNumber, <<"P","R"," ","n","o","t"," ","f","o","u","n","d"," ","(","m","a","y"," ","h","a","v","e"," ","b","e","e","n"," ","d","e","l","e","t","e","d",")">>)
  ELSE err

\* the value the awaited operation resolves to, from the host's answer
Resolution(f, apis, val) ==
  IF apis = {"pulls.listReviews"} THEN getReviewInfo(val) ELSE val

\* no processSinglePR has returned in this iteration
NoResult == [prNumber |-> 0, status |-> "none", reason |-> Undefined]

\* the while loop from its test (line 402) to the first await of
\* processSinglePR, or to the return of the summary
LoopTop(queue, running, unawaited, last) ==
  IF queue = <<>>
  THEN /\ opc' = "done"
       /\ allPRs' = queue
       /\ ps' = last
       /\ pending' = {}
       /\ orphans' = unawaited
       /\ active' = running
       /\ UNCHANGED <<pr, isRetry, passes, result>>
  ELSE LET next == Head(queue)
       IN /\ opc' = "inPR"
          /\ pr' = next
          /\ allPRs' = Tail(queue)
          /\ isRetry' = (next \in retriedPRNumbers')
          /\ ps' = NewFrame(next)
          /\ pending' = Calls(next, Dequeued(passes) + 1, CallsAt(NewFrame(next)))
          /\ orphans' = unawaited
          /\ active' = running \cup {next}
          /\ passes' = [passes EXCEPT ![next] = @ + 1]
          /\ result' = NoResult

\* lines 441-449, then the loop test
RequeueAndLoop(queue, deferred, running, unawaited, last) ==
  IF ShouldRequeue(queue, deferred)
  THEN /\ retriedPRNumbers' = MarkRetried(retriedPRNumbers, deferred)
       /\ deferredPRs' = <<>>
       /\ LoopTop(queue \o deferred, running, unawaited, last)
  ELSE /\ retriedPRNumbers' = retriedPRNumbers
       /\ deferredPRs' = deferred
       /\ LoopTop(queue, running, unawaited, last)

\* orchestrateMerge is called: up to its first await, or its return for an
\* empty list
Start ==
  /\ opc = "start"
  /\ retriedPRNumbers' = retriedPRNumbers
  /\ LoopTop(prs, active, orphans, ps)
  /\ UNCHANGED <<callVars, deferredPRs, results, deferLog, askCalls>>

\* processSinglePR returned with the frame f, leaving the calls left in
\* flight: the switch of lines 414-434 and the test of
\* line 437; without a pause the code runs on through lines 441-450
FinishPR(f, left) ==
  LET r == f.result
      defer == ShouldDefer(isRetry, r)
      deferred2 == IF defer THEN Append(deferredPRs, pr) ELSE deferredPRs
  IN /\ results' = IF defer THEN results ELSE Record(results, r)
     /\ deferLog' = IF defer THEN Append(deferLog, pr) ELSE deferLog
     /\ IF NeedsPause(allPRs, deferred2)
        THEN /\ opc' = "pause"
             /\ deferredPRs' = deferred2
             /\ ps' = f
             /\ pending' = {}
             /\ orphans' = orphans \cup left
             /\ active' = active \ {pr}
             /\ result' = r
             /\ UNCHANGED <<allPRs, retriedPRNumbers, pr, isRetry, passes>>
        ELSE RequeueAndLoop(allPRs, deferred2, active \ {pr},
                            orphans \cup left, f)
     /\ UNCHANGED <<callVars, askCalls>>

\* the running processSinglePR is resumed with ev; left are the awaited
\* calls still in flight that it no longer awaits
Resume(ev, left) ==
  \E f \in {IF host = "watched" THEN Seen(ps, ev, Step(ps, opts, ev))
            ELSE Step(ps, opts, ev)} :
     IF f.pc = "return"
     THEN FinishPR(f, left)
     ELSE /\ orphans' = orphans \cup left
          /\ ps' = f
          /\ pending' = Calls(pr, Dequeued(passes), CallsAt(f))
          /\ UNCHANGED <<callVars, opc, allPRs, deferredPRs, retriedPRNumbers,
                         results, pr, isRetry, result, active, passes,
                         deferLog, askCalls>>

\* the product of the answers to the awaited calls, one per call
Answers(apis, n, profile) ==
  IF apis = {"checks.listForRef", "repos.getCombinedStatusForRef"}
  THEN {getChecksStatus(runs, statuses) :
          runs \in HostValues("checks.listForRef", n, profile),
          statuses \in HostValues("repos.getCombinedStatusForRef", n, profile)}
  ELSE UNION {HostValues(a, n, profile) : a \in apis}

\* every awaited host call is fulfilled (for getChecksStatus: its
\* Promise.all of two requests)
HostFulfils ==
  /\ opc = "inPR"
  /\ pending # {}
  /\ \E val \in Answers(CallsAt(ps), pr, host) :
       Resume(Fulfilled(Resolution(ps, CallsAt(ps), val), FALSE), {})

\* the sibling requests that can be unsettled when a rejection is handled:
\* any of them, except with the "prompt" host, whose answers to the requests
\* of one Promise.all arrive together
StillInFlight(siblings, profile) ==
  IF profile \in {"prompt", "watched"} THEN {{}} ELSE SUBSET siblings

\* an awaited host call is rejected.  Promise.all rejects with the first
\* rejection: a sibling request not yet settled stays in flight, awaited by
\* nobody.  Inside poll the clock is compared next (line 94 of utils/poller)
HostRejects ==
  /\ opc = "inPR"
  /\ \E c \in pending : \E err \in HostErrors(c.api, pr, host) :
     \E late \in (IF InPoll(ps) THEN BOOLEAN ELSE {FALSE}) :
     \E left \in StillInFlight(pending \ {c}, host) :
       LET error == IF c.api = "pulls.get" THEN PullsGetError(ps, err) ELSE err
       IN Resume(Rejected(error, late), left)

\* a sleep of processSinglePR or of poll is over; poll compares the clock
\* at the top of its loop
TimerFires ==
  /\ opc = "inPR"
  /\ Sleeping(ps)
  /\ \E late \in (IF InPoll(ps) THEN BOOLEAN ELSE {FALSE}) :
       Resume(Fulfilled("none", late), {})

\* a host call nobody awaits any more settles
OrphanSettles ==
  /\ \E c \in orphans : orphans' = orphans \ {c}
  /\ UNCHANGED <<callVars, opc, allPRs, deferredPRs, retriedPRNumbers, results,
                 pr, isRetry, result, ps, pending, active, passes, deferLog,
                 askCalls>>

\* variant: processSinglePR is not awaited
PauseIsOverEarly(at) == at \in {"pause", "inPR"}

\* the code resumes after the sleep(3000) of line 438
PauseIsOver(at) == at = "pause"

\* sleep(3000) between PRs is over: lines 441-449, then the next iteration
PauseOver ==
  /\ PauseIsOver(opc)
  /\ RequeueAndLoop(allPRs, deferredPRs, active, orphans \cup pending, ps)
  /\ UNCHANGED <<callVars, results, deferLog, askCalls>>

\* the summary orchestrateMerge returns
Summary ==
  LET n(status) == Cardinality({i \in 1..Len(results) : results[i].status = status})
  IN [processed |-> Len(results), merged |-> n("merged"),
      skipped |-> n("skipped"), failed |-> n("failed"), results |-> results,
      dryRun |-> opts.dryRun]

\* variant: skipped PRs count as failures of the run
exitStatusStrict(summary) ==
  IF summary.failed > 0 \/ summary.skipped > 0 THEN 1 ELSE 0

\* main(), lines 146-149: process.exit(1) when result.failed > 0; otherwise
\* main returns and the process ends with status 0
exitStatus(summary) == IF summary.failed > 0 THEN 1 ELSE 0

PRNumbers == 1..MaxPRs

\* input lists: distinct PR numbers, ascending or descending
Inputs ==
  {<<>>} \cup {[i \in 1..n |-> i] : n \in 1..MaxPRs}
         \cup {[i \in 1..n |-> n + 1 - i] : n \in 1..MaxPRs}

\* the configurations of a call: main()'s (live and dry-run), one that says
\* not to continue, and one without the continue callback
Configurations ==
  { [dryRun |-> FALSE, continueOnError |-> TRUE, onAskContinue |-> TRUE],
    [dryRun |-> TRUE, continueOnError |-> TRUE, onAskContinue |-> TRUE],
    [dryRun |-> FALSE, continueOnError |-> FALSE, onAskContinue |-> TRUE],
    [dryRun |-> FALSE, continueOnError |-> TRUE, onAskContinue |-> FALSE] }

\* main()'s configurations
MainConfigurations ==
  {c \in Configurations : c.continueOnError /\ c.onAskContinue}

\* the state at the call of orchestrateMerge(client, owner, repo, input,
\* options, callback)
Called(input, config, profile, pair) ==
  /\ prs = input
  /\ host = profile
  /\ opts = Options(config.dryRun, config.continueOnError)
  /\ onAskContinue = config.onAskContinue
  /\ opc = "start"
  /\ allPRs = prs
  /\ deferredPRs = <<>>
  /\ retriedPRNumbers = {}
  /\ results = <<>>
  /\ pr = 0
  /\ isRetry = FALSE
  /\ result = NoResult
  /\ ps = IdleFrame
  /\ pending = {}
  /\ orphans = {}
  /\ active = {}
  /\ passes = [n \in PRNumbers |-> 0]
  /\ deferLog = <<>>
  /\ askCalls = <<>>
  /\ twin = pair
  /\ po = IdlePoll
  /\ wr = IdleRetry
  /\ cs = IdleChecks
  /\ observed = IdlePoll
  /\ rv = IdleReviews

(***************************************************************************)
(* A live and a dry-run processSinglePR of the same PR, given the same     *)
(* answers: the k-th read call of one is answered as the k-th read call of *)
(* the other, and sleeps that both are in end with the same clock          *)
(***************************************************************************)
\* what the frame is suspended on
Kind(f) ==
  IF f.pc \in {"return", "idle"} THEN "done"
  ELSE IF Sleeping(f) THEN "sleep"
  ELSE IF CallsAt(f) \subseteq MutatingApis THEN "mutate"
  ELSE "read"

\* the read calls issued so far, after the frame moved to f
Logged(reads, f) ==
  IF Kind(f) = "read" THEN Append(reads, CallsAt(f)) ELSE reads

\* the two progressions at their first await
StartedTwin ==
  [live |-> NewFrame(1), dry |-> NewFrame(1),
   liveReads |-> Logged(<<>>, NewFrame(1)),
   dryReads |-> Logged(<<>>, NewFrame(1)),
   left |-> FALSE]

\* no comparison is running
NoTwin ==
  [live |-> IdleFrame, dry |-> IdleFrame, liveReads |-> <<>>,
   dryReads |-> <<>>, left |-> FALSE]

\* the event a frame is resumed with when its awaited read is fulfilled
EvFulfilled(f, val) == Fulfilled(Resolution(f, CallsAt(f), val), FALSE)

\* the event a frame is resumed with when an awaited call is rejected
EvRejected(f, api, err, late) ==
  Rejected(IF api = "pulls.get" THEN PullsGetError(f, err) ELSE err,
           InPoll(f) /\ late)

\* the live progression has failed an approval, or has come to
\* triggerRebase (which issues no call when the rebase was already asked
\* for) or to mergePullRequest
LiveLeaves(f, f2) ==
  \/ f2.pc \in {"rebaseTrigger", "rebasePoll", "mergeFetch"}
  \/ f.pc = "approve" /\ f2.pc # "fetch5"

TwinMoves(l2, d2) ==
  /\ twin' = [live |-> l2, dry |-> d2,
              liveReads |-> IF l2 = twin.live THEN twin.liveReads
                            ELSE Logged(twin.liveReads, l2),
              dryReads |-> IF d2 = twin.dry THEN twin.dryReads
                           ELSE Logged(twin.dryReads, d2),
              left |-> twin.left \/ LiveLeaves(twin.live, l2)]
  /\ UNCHANGED <<prs, opts, onAskContinue, host, opc, allPRs, deferredPRs,
                 retriedPRNumbers, results, pr, isRetry, result, ps, pending,
                 orphans, active, passes, deferLog, askCalls, utilVars>>

LiveOptions == Options(FALSE, TRUE)

DryRunOptions == Options(TRUE, TRUE)

WithinReads ==
  Len(twin.liveReads) < MaxReads /\ Len(twin.dryReads) < MaxReads

\* both await their k-th read call, of the same endpoint: one answer
TwinRead ==
  /\ WithinReads
  /\ Kind(twin.live) = "read" /\ Kind(twin.dry) = "read"
  /\ Len(twin.liveReads) = Len(twin.dryReads)
  /\ CallsAt(twin.live) = CallsAt(twin.dry)
  /\ \/ \E val \in Answers(CallsAt(twin.live), 1, "full") :
          TwinMoves(Step(twin.live, LiveOptions, EvFulfilled(twin.live, val)),
                    Step(twin.dry, DryRunOptions, EvFulfilled(twin.dry, val)))
     \/ \E api \in CallsAt(twin.live) : \E err \in HostErrors(api, 1, "full") :
        \E late \in BOOLEAN :
          TwinMoves(Step(twin.live, LiveOptions,
                         EvRejected(twin.live, api, err, late)),
                    Step(twin.dry, DryRunOptions,
                         EvRejected(twin.dry, api, err, late)))

\* both sleep: the sleeps end with the same clock
TwinTimer ==
  /\ WithinReads
  /\ Kind(twin.live) = "sleep" /\ Kind(twin.dry) = "sleep"
  /\ \E late \in BOOLEAN :
       TwinMoves(Step(twin.live, LiveOptions,
                      Fulfilled("none", InPoll(twin.live) /\ late)),
                 Step(twin.dry, DryRunOptions,
                      Fulfilled("none", InPoll(twin.dry) /\ late)))

\* a progression moves on its own when a mutating call of it settles, when
\* its sleep ends while the other awaits a read or has returned, and when a
\* read of it settles after the other has returned
MovesAlone(f, other) ==
  \/ Kind(f) = "mutate"
  \/ Kind(f) = "sleep" /\ Kind(other) \in {"read", "done"}
  \/ Kind(f) = "read" /\ Kind(other) = "done"

\* the events that resume it with a fulfilled call or an ended sleep
AloneFulfilled(f) ==
  IF Kind(f) = "sleep"
  THEN {Fulfilled("none", InPoll(f) /\ late) : late \in BOOLEAN}
  ELSE {EvFulfilled(f, val) : val \in Answers(CallsAt(f), 1, "full")}

\* the events that resume it with a rejected call
AloneRejected(f) ==
  IF Kind(f) = "sleep" THEN {}
  ELSE UNION {{EvRejected(f, api, err, late) :
                 err \in HostErrors(api, 1, "full"),
                 late \in (IF Kind(f) = "read" THEN BOOLEAN ELSE {FALSE})} :
              api \in CallsAt(f)}

\* the live progression moves while the dry run waits for it or has returned
TwinLiveAlone ==
  /\ WithinReads
  /\ MovesAlone(twin.live, twin.dry)
  /\ \/ \E ev \in AloneFulfilled(twin.live) :
          TwinMoves(Step(twin.live, LiveOptions, ev), twin.dry)
     \/ \E ev \in AloneRejected(twin.live) :
          TwinMoves(Step(twin.live, LiveOptions, ev), twin.dry)

\* the dry run moves while the live progression waits for it or has returned
TwinDryAlone ==
  /\ WithinReads
  /\ MovesAlone(twin.dry, twin.live)
  /\ \/ \E ev \in AloneFulfilled(twin.dry) :
          TwinMoves(twin.live, Step(twin.dry, DryRunOptions, ev))
     \/ \E ev \in AloneRejected(twin.dry) :
          TwinMoves(twin.live, Step(twin.dry, DryRunOptions, ev))

\* batches of up to MaxPRs PRs against a host that answers and refuses
\* merges but fails no request
Init == \E input \in Inputs, config \in Configurations :
          Called(input, config, "basic", NoTwin)

\* one PR against every host behaviour
InitPR == \E config \in MainConfigurations : Called(<<1>>, config, "full", NoTwin)

\* two PRs against a host that also fails requests
InitPair == \E config \in MainConfigurations : Called(<<1, 2>>, config, "faulty", NoTwin)

\* one PR against every host behaviour, the answers to sibling requests
\* arriving together
InitSolo == \E config \in MainConfigurations : Called(<<1>>, config, "prompt", NoTwin)

\* one PR against a host that refuses merges only, the head commits that the
\* calls read being logged in the frame
InitHeads == \E config \in MainConfigurations : Called(<<1>>, config, "watched", NoTwin)

\* no call is ever orphaned
NextBasic ==
  \/ Start
  \/ HostFulfils
  \/ HostRejects
  \/ TimerFires
  \/ PauseOver

Next ==
  \/ Start
  \/ HostFulfils
  \/ HostRejects
  \/ TimerFires
  \/ OrphanSettles
  \/ PauseOver

\* the comparison of a live with a dry-run progression
InitTwin ==
  Called(<<1>>, [dryRun |-> FALSE, continueOnError |-> TRUE,
                 onAskContinue |-> TRUE], "full", StartedTwin)

NextTwin ==
  \/ TwinRead
  \/ TwinTimer
  \/ TwinLiveAlone
  \/ TwinDryAlone

Spec == Init /\ [][NextBasic]_vars

SpecPR == InitPR /\ [][Next]_vars

SpecPair == InitPair /\ [][Next]_vars

SpecSolo == InitSolo /\ [][NextBasic]_vars

SpecHeads == InitHeads /\ [][NextBasic]_vars

SpecTwin == InitTwin /\ [][NextTwin]_vars

(***************************************************************************)
(* The utilities on their own: orchestrateMerge is not called              *)
(***************************************************************************)
NotCalled ==
  /\ prs = <<>>
  /\ host = "basic"
  /\ opts = Options(FALSE, TRUE)
  /\ onAskContinue = FALSE
  /\ opc = "idle"
  /\ allPRs = <<>>
  /\ deferredPRs = <<>>
  /\ retriedPRNumbers = {}
  /\ results = <<>>
  /\ pr = 0
  /\ isRetry = FALSE
  /\ result = NoResult
  /\ ps = IdleFrame
  /\ pending = {}
  /\ orphans = {}
  /\ active = {}
  /\ passes = [n \in PRNumbers |-> 0]
  /\ deferLog = <<>>
  /\ askCalls = <<>>
  /\ twin = NoTwin

\* the times at which a utility is called
StartTimes == {0, 7}

\* poll(fn, options) is called
InitPoll ==
  /\ NotCalled
  /\ \E options \in PollerOptions, startTime \in StartTimes :
       po = NewPoll(options, startTime)
  /\ wr = IdleRetry
  /\ cs = IdleChecks
  /\ observed = IdlePoll
  /\ rv = IdleReviews

\* the probe resolves
ProbeResolves ==
  /\ po.pc = "probe"
  /\ \E r \in ProbeResults, took \in ProbeTimes :
       po' = OnProbeResult(po, r, took)
  /\ UNCHANGED <<orchestratorVars, wr, cs, observed, rv>>

\* the probe rejects
ProbeRejects ==
  /\ po.pc = "probe"
  /\ \E error \in ProbeErrors, took \in ProbeTimes :
       po' = OnProbeError(po, error, took)
  /\ UNCHANGED <<orchestratorVars, wr, cs, observed, rv>>

\* the sleep of poll is over
PollTimerFires ==
  /\ po.pc = "sleep"
  /\ po' = OnPollSleep(po)
  /\ UNCHANGED <<orchestratorVars, wr, cs, observed, rv>>

NextPoll ==
  \/ ProbeResolves
  \/ ProbeRejects
  \/ PollTimerFires

SpecPoll == InitPoll /\ [][NextPoll]_vars

\* the probe settles and the timers fire
SpecPollLive == SpecPoll /\ WF_vars(NextPoll)

\* poll(fn, options) is called twice with the same fn, condition, intervals
\* and timeout at the same time: once without onPoll, once with it
InitObserver ==
  /\ NotCalled
  /\ \E options \in PollerOptions, startTime \in StartTimes,
        onPoll \in Observers :
       /\ po = NewPoll(options, startTime)
       /\ observed = NewPoll([options EXCEPT !.onPoll = onPoll], startTime)
  /\ wr = IdleRetry
  /\ cs = IdleChecks
  /\ rv = IdleReviews

\* poll has returned or thrown
PollEnded(f) == f.pc \in {"returned", "thrown"}

\* the probe resolves, in both polls to the same result after the same time
ProbesResolve ==
  /\ po.pc = "probe"
  /\ observed.pc = "probe"
  /\ \E r \in ProbeResults, took \in ProbeTimes :
       /\ po' = OnProbeResult(po, r, took)
       /\ observed' = OnProbeResult(observed, r, took)
  /\ UNCHANGED <<orchestratorVars, wr, cs, rv>>

\* the probe rejects, in both polls with the same error after the same time
ProbesReject ==
  /\ po.pc = "probe"
  /\ observed.pc = "probe"
  /\ \E error \in ProbeErrors, took \in ProbeTimes :
       /\ po' = OnProbeError(po, error, took)
       /\ observed' = OnProbeError(observed, error, took)
  /\ UNCHANGED <<orchestratorVars, wr, cs, rv>>

\* the sleeps of both polls are over
TimersFire ==
  /\ po.pc = "sleep"
  /\ observed.pc = "sleep"
  /\ po' = OnPollSleep(po)
  /\ observed' = OnPollSleep(observed)
  /\ UNCHANGED <<orchestratorVars, wr, cs, rv>>

\* the poll with onPoll goes on after the other one has ended
ObservedRunsOn ==
  /\ PollEnded(po)
  /\ \/ /\ observed.pc = "probe"
        /\ \E r \in ProbeResults, took \in ProbeTimes :
             observed' = OnProbeResult(observed, r, took)
     \/ /\ observed.pc = "probe"
        /\ \E error \in ProbeErrors, took \in ProbeTimes :
             observed' = OnProbeError(observed, error, took)
     \/ /\ observed.pc = "sleep"
        /\ observed' = OnPollSleep(observed)
  /\ UNCHANGED <<orchestratorVars, po, wr, cs, rv>>

\* the poll without onPoll goes on after the other one has ended: it can
\* only be asleep then
UnobservedRunsOn ==
  /\ PollEnded(observed)
  /\ po.pc = "sleep"
  /\ po' = OnPollSleep(po)
  /\ UNCHANGED <<orchestratorVars, observed, wr, cs, rv>>

NextObserver ==
  \/ ProbesResolve
  \/ ProbesReject
  \/ TimersFire
  \/ ObservedRunsOn
  \/ UnobservedRunsOn

SpecObserver == InitObserver /\ [][NextObserver]_vars

\* withRetry(fn, options) is called
InitRetry ==
  /\ NotCalled
  /\ \E options \in RetryOptions, now \in StartTimes :
       wr = NewRetry(options, now)
  /\ po = IdlePoll
  /\ cs = IdleChecks
  /\ observed = IdlePoll
  /\ rv = IdleReviews

\* the operation resolves
OperationResolves ==
  /\ wr.pc = "call"
  /\ \E value \in RetryValues : wr' = OnRetryValue(wr, value)
  /\ UNCHANGED <<orchestratorVars, po, cs, observed, rv>>

\* the operation rejects
OperationRejects ==
  /\ wr.pc = "call"
  /\ \E error \in RetryErrors : wr' = OnRetryError(wr, error)
  /\ UNCHANGED <<orchestratorVars, po, cs, observed, rv>>

\* the sleep of withRetry is over
RetryTimerFires ==
  /\ wr.pc = "sleep"
  /\ wr' = OnRetrySlept(wr)
  /\ UNCHANGED <<orchestratorVars, po, cs, observed, rv>>

NextRetry ==
  \/ OperationResolves
  \/ OperationRejects
  \/ RetryTimerFires

SpecRetry == InitRetry /\ [][NextRetry]_vars

\* getChecksStatus is called and its two requests are in flight
InitChecks ==
  /\ NotCalled
  /\ cs = [pc |-> "fetch", status |-> NoChecks]
  /\ po = IdlePoll
  /\ wr = IdleRetry
  /\ observed = IdlePoll
  /\ rv = IdleReviews

\* both requests are answered and the status is built
ChecksFetched ==
  /\ cs.pc = "fetch"
  /\ \E checkRuns \in SeqsUpTo(CheckRunValues, MaxChecks),
        statuses \in SeqsUpTo(CommitStatusValues, 1) :
       cs' = [pc |-> "built", status |-> getChecksStatus(checkRuns, statuses)]
  /\ UNCHANGED <<orchestratorVars, po, wr, observed, rv>>

NextChecks == ChecksFetched

SpecChecks == InitChecks /\ [][NextChecks]_vars

\* getReviewInfo is called and pulls.listReviews is in flight
InitReviews ==
  /\ NotCalled
  /\ rv = [pc |-> "fetch", reviews |-> <<>>, info |-> NoReviewInfo]
  /\ po = IdlePoll
  /\ wr = IdleRetry
  /\ cs = IdleChecks
  /\ observed = IdlePoll

\* the request is answered and the review info is built
ReviewsListed ==
  /\ rv.pc = "fetch"
  /\ \E reviews \in SeqsUpTo(ReviewValues, MaxReviews) :
       rv' = [pc |-> "built", reviews |-> reviews,
              info |-> getReviewInfo(reviews)]
  /\ UNCHANGED <<orchestratorVars, po, wr, cs, observed>>

NextReviews == ReviewsListed

SpecReviews == InitReviews /\ [][NextReviews]_vars

\* C1: a first progression that ends 'skipped' or 'failed' with a retriable
\* reason produces no outcome record and puts the PR on the deferred list;
\* a second progression starts only after every PR of the input list has had
\* its first progression.
C1_RetriableFirstPassDeferred ==
  /\ ( /\ opc = "pause"
       /\ ~isRetry
       /\ result.status \in {"skipped", "failed"}
       /\ isRetriableReason(result.reason) )
     => /\ \E i \in 1..Len(deferredPRs) : deferredPRs[i] = pr
        /\ \A i \in 1..Len(results) : results[i].prNumber # pr
  /\ \A n \in PRNumbers :
       passes[n] = 2 =>
         \A i \in 1..Len(prs) :
           /\ passes[prs[i]] >= 1
           /\ prs[i] \in active => passes[prs[i]] = 2

\* C1 case: in a batch of several PRs, the second progression of a deferred
\* PR is running
C1_Witness ==
  /\ opc = "inPR"
  /\ isRetry
  /\ Len(prs) >= 2
  /\ passes[pr] = 2
  /\ \E i \in 1..Len(deferLog) : deferLog[i] = pr

\* C2: no PR is progressed more than twice; a 'skipped' or 'failed' outcome of
\* a second progression is recorded as final even when its reason is
\* retriable, and the PR is never deferred a second time.
C2_AtMostTwoPasses ==
  /\ \A n \in PRNumbers : passes[n] <= 2
  /\ (isRetry /\ opc \in {"pause", "done"})
     => /\ \A i \in 1..Len(deferredPRs) : deferredPRs[i] # pr
        /\ results # <<>>
        /\ results[Len(results)].prNumber = pr
  /\ \A i, j \in 1..Len(deferLog) : deferLog[i] = deferLog[j] => i = j

\* C2 case: a second progression ended 'skipped' or 'failed' with a
\* retriable reason
C2_Witness ==
  /\ opc \in {"pause", "done"}
  /\ isRetry
  /\ results # <<>>
  /\ results[Len(results)].prNumber = pr
  /\ results[Len(results)].status \in {"skipped", "failed"}
  /\ isRetriableReason(results[Len(results)].reason)

\* C3: the returned records are those of the PRs finalized in their first
\* progression, in input order, followed by those of the deferred PRs in
\* deferral order.  For [1, 2, 3] where only PR 2 is deferred and every PR
\* ends merged, the records are those of 1, 3, 2 and merged is 3.
C3_ResultOrder ==
  opc = "done" =>
    LET numbers == [i \in 1..Len(results) |-> results[i].prNumber]
        first == SelectSeq(prs, LAMBDA n :
                             \A i \in 1..Len(deferLog) : deferLog[i] # n)
    IN /\ numbers = first \o deferLog
       /\ ( /\ prs = <<1, 2, 3>>
            /\ deferLog = <<2>>
            /\ \A i \in 1..Len(results) : results[i].status = "merged" )
          => numbers = <<1, 3, 2>> /\ Summary.merged = 3

\* C3 case: [1, 2, 3] was processed, PR 2 alone was deferred and all three
\* ended merged
C3_Witness ==
  /\ opc = "done"
  /\ prs = <<1, 2, 3>>
  /\ deferLog = <<2>>
  /\ Len(results) = 3
  /\ \A i \in 1..Len(results) : results[i].status = "merged"

\* C4: for N input PRs at most 2*N progressions are run, and orchestrateMerge
\* returns only when the queue and the deferred list are both empty.
C4_BoundedPasses ==
  /\ Dequeued(passes) <= 2 * Len(prs)
  /\ opc = "done" =>
       /\ allPRs = <<>>
       /\ deferredPRs = <<>>
       /\ active = {}
       /\ pending = {}

\* C4 case: a batch of several PRs returned after every PR was progressed
\* twice
C4_Witness ==
  /\ opc = "done"
  /\ Len(prs) >= 2
  /\ Dequeued(passes) = 2 * Len(prs)

\* C5: a skip whose reason is 'already merged', 'closed', 'draft', 'merge
\* conflicts' or 'waiting for stability-days' is not retriable: its record is
\* pushed at once, the PR is not put on the deferred list and is progressed
\* exactly once.  A PR is deferred only for a reason that contains, without
\* regard to case, 'ci checks failed', 'merge blocked', 'needs rebase' or
\* 'timeout'.
C5_NonRetriableSkips ==
  LET named(reason) ==
        /\ reason # Undefined
        /\ \E p \in { <<"a","l","r","e","a","d","y"," ","m","e","r","g","e","d">>, <<"c","l","o","s","e","d">>, <<"d","r","a","f","t">>,
                      <<"m","e","r","g","e"," ","c","o","n","f","l","i","c","t","s">>, <<"w","a","i","t","i","n","g"," ","f","o","r"," ","s","t","a","b","i","l","i","t","y","-","d","a","y","s">> } :
             includes(toLowerCase(reason), p)
      retriable(reason) ==
        /\ reason # Undefined
        /\ \/ includes(toLowerCase(reason), <<"c","i"," ","c","h","e","c","k","s"," ","f","a","i","l","e","d">>)
           \/ includes(toLowerCase(reason), <<"m","e","r","g","e"," ","b","l","o","c","k","e","d">>)
           \/ includes(toLowerCase(reason), <<"n","e","e","d","s"," ","r","e","b","a","s","e">>)
           \/ includes(toLowerCase(reason), <<"t","i","m","e","o","u","t">>)
      deferred(n) == \E i \in 1..Len(deferLog) : deferLog[i] = n
  IN /\ ( /\ opc = "pause"
          /\ \E i \in 1..Len(deferredPRs) : deferredPRs[i] = pr )
        => /\ retriable(result.reason)
           /\ ~(result.status = "skipped" /\ named(result.reason))
     /\ ( /\ opc = "done"
          /\ pr # 0
          /\ ~isRetry )
        => /\ results # <<>>
           /\ results[Len(results)].prNumber = pr
           /\ ( /\ results[Len(results)].status = "skipped"
                /\ named(results[Len(results)].reason) )
              => ~deferred(pr) /\ passes[pr] = 1
     /\ \A n \in PRNumbers : passes[n] = 2 => deferred(n)

\* C5 case: the first progression of a PR ended in a skip for pending
\* stability-days and the call returned
C5_Witness ==
  /\ opc = "done"
  /\ ~isRetry
  /\ results # <<>>
  /\ results[Len(results)].prNumber = pr
  /\ results[Len(results)].status = "skipped"
  /\ results[Len(results)].reason = <<"W","a","i","t","i","n","g"," ","f","o","r"," ","s","t","a","b","i","l","i","t","y","-","d","a","y","s"," ","(","s","k","i","p","p","e","d",")">>
  /\ passes[pr] = 1

\* C6: with continueOnError false the batch aborts at the first final
\* outcome that is not 'merged': no PR is progressed after it.
C6_AbortsWhenNotContinuing ==
  ( /\ ~opts.continueOnError
    /\ \E i \in 1..Len(results) : results[i].status # "merged" )
  => opc \notin {"pause", "inPR"}

\* C7: when a callback is supplied and the batch is configured to continue,
\* the callback has been invoked with the PR number and the reason of every
\* recorded outcome that is not 'merged'.
C7_CallbackInvoked ==
  (onAskContinue /\ opts.continueOnError)
  => \A i \in 1..Len(results) :
       results[i].status # "merged" =>
         \E j \in 1..Len(askCalls) :
           /\ askCalls[j].prNumber = results[i].prNumber
           /\ askCalls[j].reason = results[i].reason

\* C8 as stated: every host call in flight, read or mutating, was issued for
\* the PR dequeued last, and at most one PR is mid-progression.
C8_AllCallsOfCurrentPR ==
  /\ Cardinality(active) <= 1
  /\ \A c \in pending \cup orphans : c.pos = Dequeued(passes)

\* C8: at most one PR is mid-progression, and every mutating host call for a
\* PR has completed or failed before the first host call for the next PR; a
\* call of an earlier PR still in flight is one of the two read requests of
\* a check-status fetch whose other request failed.
C8_MutatingCallsOfCurrentPR ==
  /\ Cardinality(active) <= 1
  /\ active \subseteq {pr}
  /\ \A c \in pending \cup orphans :
       /\ c.api \in MutatingApis => c.pos = Dequeued(passes) /\ c \in pending
       /\ c.pos # Dequeued(passes) =>
            c.api \in {"checks.listForRef", "repos.getCombinedStatusForRef"}

\* C8 case: a mutating call for a later PR is in flight while a read request
\* of an earlier PR has not settled
C8_Witness ==
  /\ opc = "inPR"
  /\ \E c \in pending : c.api \in MutatingApis
  /\ \E c \in orphans : c.pos < Dequeued(passes)

\* C9: in dry-run mode no mutating host call is issued: no approval, no PR
\* body update, no rebase comment and no merge.
C9_DryRunIssuesNoMutation ==
  opts.dryRun =>
    /\ \A c \in pending \cup orphans : c.api \notin MutatingApis
    /\ ps.pc \notin {"approve", "rebaseTrigger", "merge"}

\* C9 case: a dry run went through every step and reported the PR as merged
C9_Witness ==
  /\ opts.dryRun
  /\ opc = "done"
  /\ results # <<>>
  /\ results[Len(results)].status = "merged"
  /\ results[Len(results)].reason = Undefined

\* C10 as stated: given the same answers, the read calls of a dry-run
\* progression are those of the live progression, call for call, and when
\* both have returned they have issued the same sequence.
C10_SameReadCalls ==
  LET n == IF Len(twin.liveReads) < Len(twin.dryReads)
           THEN Len(twin.liveReads) ELSE Len(twin.dryReads)
  IN /\ SubSeq(twin.liveReads, 1, n) = SubSeq(twin.dryReads, 1, n)
     /\ (Kind(twin.live) = "done" /\ Kind(twin.dry) = "done")
        => twin.liveReads = twin.dryReads

\* C10: given the same answers, a dry-run progression issues the same
\* sequence of read calls as the live progression for as long as the live
\* progression has neither failed an approval nor come to trigger a rebase
\* or to merge.
C10_SameReadCallsUntilLiveActs ==
  ~twin.left =>
    LET n == IF Len(twin.liveReads) < Len(twin.dryReads)
             THEN Len(twin.liveReads) ELSE Len(twin.dryReads)
    IN /\ SubSeq(twin.liveReads, 1, n) = SubSeq(twin.dryReads, 1, n)
       /\ Kind(twin.live) = Kind(twin.dry) => twin.liveReads = twin.dryReads
       /\ Kind(twin.dry) = "done" =>
            twin.live.result = twin.dry.result

\* C10 case: both progressions have fetched the PR, waited for pending
\* checks, fetched the reviews and reached the final check of step 6
C10_Witness ==
  /\ ~twin.left
  /\ twin.live.pc = "fetch6"
  /\ twin.dry.pc = "fetch6"
  /\ twin.liveReads = twin.dryReads
  /\ Len(twin.liveReads) >= 6

\* C11 as stated: in a dry-run batch of a single PR that is open, has passing
\* CI, has no approval and needs no rebase, the status message after
\* '[DRY-RUN] Would approve PR...' is '[DRY-RUN] Would merge PR...'.
C11_WouldApproveThenWouldMerge ==
  [][(/\ opts.dryRun /\ Len(prs) = 1 /\ opc = "inPR" /\ ps' # ps
      /\ areChecksPassing(ps.checksStatus)
      /\ ps.reviewInfo.fetched /\ ~ps.reviewInfo.hasApproval
      /\ ps.pc = "fetch5"
      /\ ps'.freshPR.state = "open" /\ ~needsRebase(ps'.freshPR))
     => /\ ps.out = << <<"[","D","R","Y","-","R","U","N","]"," ","W","o","u","l","d"," ","a","p","p","r","o","v","e"," ","P","R",".",".",".">> >>
        /\ Head(ps'.out) = <<"[","D","R","Y","-","R","U","N","]"," ","W","o","u","l","d"," ","m","e","r","g","e"," ","P","R",".",".",".">>]_vars

\* C11: in a dry-run batch of a single PR that is open, has passing CI, has
\* no approval and needs no rebase, the status message
\* '[DRY-RUN] Would approve PR...' is followed directly by
\* 'Final merge check...' and that one directly by
\* '[DRY-RUN] Would merge PR...'; the PR's outcome is 'merged' and the
\* summary's dryRun flag is true.
C11_WouldApproveFinalCheckWouldMerge ==
  [][(/\ opts.dryRun /\ Len(prs) = 1 /\ opc = "inPR" /\ ps' # ps
      /\ areChecksPassing(ps.checksStatus)
      /\ ps.reviewInfo.fetched /\ ~ps.reviewInfo.hasApproval
      /\ ps'.freshPR.state = "open" /\ ~needsRebase(ps'.freshPR))
     => /\ ps.pc = "fetch5" =>
             /\ ps.out = << <<"[","D","R","Y","-","R","U","N","]"," ","W","o","u","l","d"," ","a","p","p","r","o","v","e"," ","P","R",".",".",".">> >>
             /\ ps'.out = << <<"F","i","n","a","l"," ","m","e","r","g","e"," ","c","h","e","c","k",".",".",".">> >>
             /\ ps'.pc = "fetch6"
        /\ ps.pc = "fetch6" =>
             /\ ps.out = << <<"F","i","n","a","l"," ","m","e","r","g","e"," ","c","h","e","c","k",".",".",".">> >>
             /\ ps'.out = << <<"[","D","R","Y","-","R","U","N","]"," ","W","o","u","l","d"," ","m","e","r","g","e"," ","P","R",".",".",".">> >>
             /\ opc' = "done"
             /\ results' = << [prNumber |-> prs[1], status |-> "merged",
                               reason |-> Undefined] >>
             /\ Summary'.dryRun]_vars

\* C11 case: the dry run of a single unapproved PR announced the merge last
\* and reported the PR as merged
C11_Witness ==
  /\ opts.dryRun
  /\ Len(prs) = 1
  /\ opc = "done"
  /\ ps.reviewInfo.fetched
  /\ ~ps.reviewInfo.hasApproval
  /\ ps.out = << <<"[","D","R","Y","-","R","U","N","]"," ","W","o","u","l","d"," ","m","e","r","g","e"," ","P","R",".",".",".">> >>
  /\ Len(results) = 1
  /\ results[1].status = "merged"

\* C12: if the snapshot fetched at step 1 is merged, closed, a draft or
\* 'dirty', the progression ends there as 'skipped' with the reason of the
\* first violated condition in the order merged, closed, draft, dirty; it
\* issues no further call and its outcome is recorded.
C12_InvalidSnapshotSkips ==
  [][(/\ opc = "inPR" /\ ps.pc = "fetch1" /\ ps' # ps
      /\ ps'.freshPR # NoPR
      /\ \/ ps'.freshPR.merged
         \/ ps'.freshPR.state = "closed"
         \/ ps'.freshPR.draft
         \/ ps'.freshPR.mergeableState = <<"d","i","r","t","y">>)
     => /\ ps'.pc = "return"
        /\ ps'.result.status = "skipped"
        /\ ps'.result.reason =
             (IF ps'.freshPR.merged THEN <<"P","R"," ","w","a","s"," ","a","l","r","e","a","d","y"," ","m","e","r","g","e","d">>
              ELSE IF ps'.freshPR.state = "closed" THEN <<"P","R"," ","w","a","s"," ","c","l","o","s","e","d">>
              ELSE IF ps'.freshPR.draft THEN <<"P","R"," ","i","s"," ","s","t","i","l","l"," ","i","n"," ","d","r","a","f","t">>
              ELSE <<"P","R"," ","h","a","s"," ","m","e","r","g","e"," ","c","o","n","f","l","i","c","t","s">>)
        /\ ps'.checksStatus = NoChecks
        /\ ~ps'.reviewInfo.fetched
        /\ ps'.mergeAttempt = 0
        /\ pending' = {}
        /\ opc' # "inPR"
        /\ results' = Append(results, ps'.result)]_vars

\* C12 case: step 1 fetched a snapshot that is both merged and closed and the
\* progression ended as skipped for the merged PR
C12_Witness ==
  /\ opc = "done"
  /\ ps.pc = "return"
  /\ ps.freshPR.merged
  /\ ps.freshPR.state = "closed"
  /\ ps.checksStatus = NoChecks
  /\ ps.result.status = "skipped"
  /\ ps.result.reason = <<"P","R"," ","w","a","s"," ","a","l","r","e","a","d","y"," ","m","e","r","g","e","d">>

\* C13: if the check status fetched at step 2 is failing (state failure or
\* error), the progression ends there as 'skipped' with a reason that
\* contains the name of every failed check; no approval, rebase trigger or
\* merge call is issued.
C13_FailingChecksSkip ==
  [][(/\ opc = "inPR" /\ ps.pc = "checks3" /\ ps' # ps
      /\ ps'.checksStatus # NoChecks
      /\ ps'.checksStatus.state \in {"failure", "error"})
     => /\ ps'.pc = "return"
        /\ ps'.result.status = "skipped"
        /\ \A i \in 1..Len(ps'.checksStatus.details) :
             LET d == ps'.checksStatus.details[i]
             IN (/\ d.status = "completed"
                 /\ d.conclusion \in {<<"f","a","i","l","u","r","e">>, <<"t","i","m","e","d","_","o","u","t">>,
                                      <<"c","a","n","c","e","l","l","e","d">>, <<"e","r","r","o","r">>})
                => includes(ps'.result.reason, d.name)
        /\ ~ps'.reviewInfo.fetched
        /\ ps'.mergeAttempt = 0
        /\ ps'.triggerApi = "none"
        /\ pending' = {}
        /\ \A c \in orphans' : c.api \notin MutatingApis]_vars

\* C13 case: step 2 found two failed checks and the progression ended as
\* skipped, naming both
C13_Witness ==
  /\ opc = "done"
  /\ ps.pc = "return"
  /\ ps.out = <<>>
  /\ ps.checksStatus.failed = 2
  /\ ps.result.status = "skipped"
  /\ ps.result.reason =
       <<"C","I"," ","c","h","e","c","k","s"," ","f","a","i","l","e","d",":"," ","b","u","i","l","d"," ","(","f","a","i","l","u","r","e",")",","," ","l","i","n","t"," ","(","t","i","m","e","d","_","o","u","t",")">>

\* C14: if the check status fetched at step 2 is not failing and holds an
\* incomplete stability-days check, the progression ends there as 'skipped'
\* with the reason 'Waiting for stability-days (skipped)', without polling
\* for CI and without a mutating call; the reason is not retriable: the
\* outcome is recorded and the PR is not deferred.
C14_StabilityDaysSkip ==
  [][(/\ opc = "inPR" /\ ps.pc = "checks3" /\ ps' # ps
      /\ ps'.checksStatus # NoChecks
      /\ ps'.checksStatus.state \notin {"failure", "error"}
      /\ \E i \in 1..Len(ps'.checksStatus.details) :
           /\ ps'.checksStatus.details[i].name = <<"r","e","n","o","v","a","t","e","/","s","t","a","b","i","l","i","t","y","-","d","a","y","s">>
           /\ ps'.checksStatus.details[i].status # "completed")
     => /\ ps'.pc = "return"
        /\ ps'.result.status = "skipped"
        /\ ps'.result.reason = <<"W","a","i","t","i","n","g"," ","f","o","r"," ","s","t","a","b","i","l","i","t","y","-","d","a","y","s"," ","(","s","k","i","p","p","e","d",")">>
        /\ ps'.site = "none"
        /\ ~ps'.reviewInfo.fetched
        /\ ps'.mergeAttempt = 0
        /\ ps'.triggerApi = "none"
        /\ pending' = {}
        /\ ~isRetriableReason(ps'.result.reason)
        /\ results' = Append(results, ps'.result)
        /\ deferredPRs' = deferredPRs
        /\ deferLog' = deferLog]_vars

\* C14 case: on the PR's first pass step 2 found the stability-days check
\* pending, and the skip was recorded without a second pass
C14_Witness ==
  /\ opc = "done"
  /\ passes[1] = 1
  /\ ps.pc = "return"
  /\ ps.mergeAttempt = 0
  /\ ps.site = "none"
  /\ areChecksPending(ps.checksStatus)
  /\ results = << [prNumber |-> 1, status |-> "skipped",
                   reason |-> <<"W","a","i","t","i","n","g"," ","f","o","r"," ","s","t","a","b","i","l","i","t","y","-","d","a","y","s"," ","(","s","k","i","p","p","e","d",")">>] >>

\* C15 as stated: if CI is pending at step 2 and the wait for CI reaches the
\* CI timeout, or CI completes as failing, the outcome of the progression is
\* 'skipped', not 'failed'.
C15_CIWaitEndsSkipped ==
  [][(/\ opc = "inPR" /\ ps.site = "ci" /\ ps' # ps
      /\ \/ /\ ps.pc = "waitChecksSleep"
            /\ ps'.pc # "waitChecks"
         \/ /\ ps.pc = "waitChecks"
            /\ ps'.out # <<>>
            /\ areChecksFailing(ps'.checksStatus))
     => /\ ps'.pc = "return"
        /\ ps'.result.status = "skipped"]_vars

\* C16: a polling timeout of the CI wait or of the rebase wait is not
\* retried inside the progression: the progression returns with a reason
\* that names the operation and the timeout in seconds and contains
\* 'timeout' (in any letter case); on the PR's first pass the orchestrator
\* defers the PR instead of recording the outcome.
C16_PollingTimeoutDeferred ==
  [][(/\ opc = "inPR" /\ ps' # ps
      /\ ps.pc \in {"waitChecksSleep", "rebasePollSleep"}
      /\ ps'.pc \notin {"waitChecks", "rebasePoll"})
     => /\ ps'.pc = "return"
        /\ ps'.attempt = ps.attempt
        /\ ps'.result.reason =
             (IF ps.pc = "waitChecksSleep"
              THEN <<"T","i","m","e","o","u","t"," ","a","f","t","e","r"," ","6","0","0","s"," ","w","a","i","t","i","n","g"," ","f","o","r"," ","C","I"," ","c","h","e","c","k","s">>
              ELSE <<"T","i","m","e","o","u","t"," ","a","f","t","e","r"," ","3","0","0","s"," ","w","a","i","t","i","n","g"," ","f","o","r"," ","r","e","b","a","s","e">>)
        /\ includes(toLowerCase(ps'.result.reason), <<"t","i","m","e","o","u","t">>)
        /\ pending' = {}
        /\ IF isRetry
           THEN /\ results' = Append(results, ps'.result)
                /\ deferredPRs' = deferredPRs
           ELSE /\ results' = results
                /\ opc' = "pause"
                /\ deferredPRs' = Append(deferredPRs, pr)]_vars

\* C16 case: the rebase wait of the PR's first pass timed out and the PR
\* waits, deferred, for its second pass
C16_Witness ==
  /\ opc = "pause"
  /\ ps.pc = "return"
  /\ ps.site \in {"rebase5", "rebase6"}
  /\ ps.result.reason = <<"T","i","m","e","o","u","t"," ","a","f","t","e","r"," ","3","0","0","s"," ","w","a","i","t","i","n","g"," ","f","o","r"," ","r","e","b","a","s","e">>
  /\ deferredPRs = <<1>>
  /\ results = <<>>

\* C17 as stated: in a live run, a failure inside the rebase handling (the
\* trigger call fails, the wait for a new head commit times out, CI on the
\* new head commit fails or times out) ends the progression as 'skipped'
\* with a reason that refers to the rebase.
C17_RebaseFailureSkips ==
  [][(/\ ~opts.dryRun /\ opc = "inPR" /\ ps' # ps
      /\ ps.site \in {"rebase5", "rebase6"}
      /\ \/ ps.pc = "rebaseTrigger" /\ ps'.pc # "rebasePoll"
         \/ ps.pc = "rebasePollSleep" /\ ps'.pc # "rebasePoll"
         \/ ps.pc = "waitChecksSleep" /\ ps'.pc # "waitChecks"
         \/ /\ ps.pc = "waitChecks"
            /\ ps'.out # <<>>
            /\ areChecksFailing(ps'.checksStatus))
     => /\ ps'.pc = "return"
        /\ ps'.result.status = "skipped"
        /\ includes(toLowerCase(ps'.result.reason), <<"r","e","b","a","s","e">>)]_vars

\* C18: when a merge call is refused as merge-blocked and the snapshot
\* fetched next shows the PR merged, the progression ends as 'merged'; when
\* it shows the PR closed and not merged, the progression ends as 'skipped';
\* in both cases no further merge call is issued.  (The PR was open when
\* last fetched before the merge call.)
C18_BlockedMergeOfSettledPR ==
  [][(/\ opc = "inPR" /\ ps.pc = "blockedFetch" /\ ps' # ps
      /\ ps.freshPR.state = "open" /\ ~ps.freshPR.merged
      /\ \/ ps'.freshPR.merged
         \/ ps'.freshPR.state = "closed")
     => /\ ps'.pc = "return"
        /\ ps'.result =
             (IF ps'.freshPR.merged
              THEN [prNumber |-> pr, status |-> "merged",
                    reason |-> <<"P","R"," ","w","a","s"," ","a","l","r","e","a","d","y"," ","m","e","r","g","e","d">>]
              ELSE [prNumber |-> pr, status |-> "skipped",
                    reason |-> <<"P","R"," ","w","a","s"," ","c","l","o","s","e","d">>])
        /\ ps'.mergeAttempt = ps.mergeAttempt
        /\ ps'.attempt = ps.attempt
        /\ pending' = {}
        /\ results' = Append(results, ps'.result)]_vars

\* C18 case: the merge of the PR was refused as blocked, the PR was found
\* merged by somebody else and is recorded as merged
C18_Witness ==
  /\ opc \in {"pause", "done"}
  /\ ps.pc = "return"
  /\ ps.mergeAttempt = 1
  /\ ps.freshPR.merged
  /\ ps.out = <<>>
  /\ results # <<>>
  /\ results[Len(results)] = [prNumber |-> ps.prNumber, status |-> "merged",
                              reason |-> <<"P","R"," ","w","a","s"," ","a","l","r","e","a","d","y"," ","m","e","r","g","e","d">>]

\* C19: within one attempt of a progression the merge call is issued at most
\* 3 times: every merge call follows its own fetch of the PR, the first one
\* is numbered 1, and a further one is numbered one higher and is started
\* only when a wait for checks that began pending after a merge-blocked
\* refusal ends with the checks passed.
C19_MergeCallsCapped ==
  [][(opc = "inPR" /\ opc' = "inPR" /\ passes' = passes /\ ps' # ps)
     => /\ ps'.pc \in {"mergeFetch", "merge"} => ps'.mergeAttempt \in 1..3
        /\ ps'.pc = "merge" =>
             /\ ps.pc = "mergeFetch"
             /\ ps'.mergeAttempt = ps.mergeAttempt
        /\ ps'.pc = "mergeFetch" =>
             \/ /\ ps'.mergeAttempt = 1
                /\ ps.mergeAttempt = 0
             \/ /\ ps'.mergeAttempt = ps.mergeAttempt + 1
                /\ ps'.attempt = ps.attempt
                /\ ps.pc = "waitChecks"
                /\ ps.site = "late"
                /\ Len(ps'.out) = 2
                /\ ps'.out[1] = <<"W","a","i","t","i","n","g"," ","f","o","r"," ","l","a","t","e"," ","c","h","e","c","k","s",":"," ","1","/","1"," ","p","a","s","s","e","d">>
                /\ ps'.out[2] = <<"M","e","r","g","i","n","g"," ","(","a","t","t","e","m","p","t"," ">>
                                 \o numToString(ps'.mergeAttempt) \o <<")",".",".",".">>
        /\ (ps'.site = "late" /\ ps.site # "late") =>
             /\ ps.pc = "blockedChecks"
             /\ areChecksPending(ps'.checksStatus)
             /\ ps'.pc = "waitChecks"
        /\ ps'.pc = "blockedChecks" => ps.pc = "blockedFetch"
        /\ ps'.pc = "blockedFetch" =>
             /\ ps.pc = "merge"
             /\ ps'.mergeAttempt = ps.mergeAttempt]_vars

\* C19 case: the third merge call of an attempt is awaited, after two
\* refusals each followed by late checks that passed
C19_Witness ==
  /\ opc = "inPR"
  /\ ps.pc = "merge"
  /\ ps.mergeAttempt = 3
  /\ ps.site = "late"

\* C20: one invocation of the single-PR progression runs step 1 at most 3
\* times: its attempts are numbered 1 to 3, a new attempt is numbered one
\* higher and starts in the fixed pause, and step 1 of an attempt after the
\* first is entered from that pause only.
C20_AtMostThreeAttempts ==
  [][(opc' = "inPR" /\ ps' # ps)
     => /\ ps'.attempt \in 1..3
        /\ (opc = "inPR" /\ passes' = passes /\ ps'.attempt # ps.attempt) =>
             /\ ps'.attempt = ps.attempt + 1
             /\ ps'.pc = "retrySleep"
        /\ (ps'.pc = "fetch1" /\ ps'.attempt > 1) =>
             /\ opc = "inPR"
             /\ passes' = passes
             /\ ps.pc = "retrySleep"
             /\ ps.attempt = ps'.attempt
        /\ (ps'.pc = "fetch1" /\ ps'.attempt = 1) =>
             /\ opc # "inPR"
             /\ passes' # passes]_vars

\* C20 case: the third attempt of a progression fetches the PR
C20_Witness ==
  /\ opc = "inPR"
  /\ ps.pc = "fetch1"
  /\ ps.attempt = 3

\* C21: an error that reaches the progression (it is raised by a host call
\* the progression awaits or by a wait, and it is not the merge-blocked
\* refusal the merge loop re-evaluates) never escapes: the progression
\* either restarts or returns.  When the error is not classified retriable
\* (not merge-blocked, no 'needs rebase' in its message), or the attempt is
\* the third, the progression returns in that very step, without a restart
\* and without announcing one, as 'failed' with the error's user-facing
\* message (userMessage of the tool's own errors, message of any other) as
\* reason.
C21_ErrorsEndAsFailed ==
  [][(/\ opc = "inPR" /\ ps' # ps
      /\ ps'.caught # NoError)
     => /\ ps'.pc \in {"return", "retrySleep"}
        /\ (\/ ~(\/ ps'.caught.cls = "MergeBlockedError"
                 \/ includes(ps'.caught.message, <<"n","e","e","d","s"," ","r","e","b","a","s","e">>))
            \/ ps.attempt = 3)
           => /\ ps'.pc = "return"
              /\ ps'.attempt = ps.attempt
              /\ ps'.out = <<>>
              /\ ps'.result.status = "failed"
              /\ ps'.result.reason =
                   (IF ps'.caught.cls \in {"PRStateError", "PollingTimeoutError",
                                           "MergeBlockedError"}
                    THEN ps'.caught.userMessage
                    ELSE ps'.caught.message)]_vars

\* C21 case: the merge call of the first attempt was refused with HTTP 409;
\* the progression returned 'failed' with the user message of the error that
\* mergePullRequest raised
C21_Witness ==
  /\ ps.pc = "return"
  /\ ps.attempt = 1
  /\ ps.caught.cls = "PRStateError"
  /\ ps.freshPR.state = "open"
  /\ ps.result.status = "failed"
  /\ ps.result.reason = <<"M","e","r","g","e"," ","c","o","n","f","l","i","c","t"," ","d","e","t","e","c","t","e","d">>

\* C22: for every probe result and every interval/timeout configuration,
\* when the first invocation of the probe resolves to a result for which
\* the condition function returns 'done', poll returns that result: the
\* probe has been invoked exactly once and poll has not slept.
C22_DoneOnFirstProbeReturns ==
  [][(/\ po.pc = "probe" /\ po.probes = 1
      /\ po'.settled = "resolved"
      /\ po.options.condition[po'.lastResult] = "done")
     => /\ po'.pc = "returned"
        /\ po'.value = po'.lastResult
        /\ po'.probes = 1
        /\ po'.sleeps = 0
        /\ po'.error = NoError]_vars

\* C22 case: poll has returned r1, the result of its only probe, which took
\* 3 ms, without sleeping
C22_Witness ==
  /\ po.pc = "returned"
  /\ po.value = "r1"
  /\ po.probes = 1
  /\ po.sleeps = 0
  /\ po.now - po.startTime = 3

\* C23 as stated: when the condition function returns 'abort' for a probe
\* result, poll stops at once and fails with the generic abort error
\* ('Polling aborted for <operation>'): the probe is not invoked again and
\* no timeout error is raised.
C23_AbortStopsAtOnce ==
  [][(/\ po.pc = "probe"
      /\ po'.settled = "resolved"
      /\ po.options.condition[po'.lastResult] = "abort")
     => /\ po'.pc = "thrown"
        /\ po'.error = PlainError(<<"P","o","l","l","i","n","g"," ","a","b","o","r","t","e","d"," ","f","o","r"," ">>
                                    \o po.options.operationName)
        /\ po'.probes = po.probes]_vars

\* C24: a poll whose condition function has returned neither 'done' nor
\* 'abort' and whose probe has never failed comes to an end, and it ends
\* with the timeout error naming the operation and the timeout; when the
\* probes took no time, the elapsed time at the failure is at least
\* timeoutMs and less than timeoutMs + maxIntervalMs.
C24_TimeoutWithinOneInterval ==
  /\ <>(po.pc \in {"returned", "thrown"})
  /\ []((/\ po.pc = "thrown"
         /\ po.aborts = 0
         /\ po.probes = po.polls)
        => /\ po.error.cls = "PollingTimeoutError"
           /\ po.error.message =
                <<"T","i","m","e","o","u","t"," ","w","a","i","t","i","n","g"," ","f","o","r"," ","o","p"," ","a","f","t","e","r"," ">>
                \o numToString(po.options.timeoutMs) \o <<"m","s">>
           /\ po.probeTime = 0
              => /\ po.elapsed = po.now - po.startTime
                 /\ po.elapsed >= po.options.timeoutMs
                 /\ po.elapsed < po.options.timeoutMs
                                 + po.options.maxIntervalMs)

\* C24 case: with timeoutMs = 20 and intervals of at most 6 ms, four probes
\* that took no time were all answered 'continue' and poll failed with the
\* timeout error 24 ms after its start
C24_Witness ==
  /\ po.pc = "thrown"
  /\ po.error = PollingTimeoutError(<<"o","p">>, 20)
  /\ po.options.maxIntervalMs = 6
  /\ po.probes = 4 /\ po.polls = 4 /\ po.aborts = 0
  /\ po.probeTime = 0
  /\ po.elapsed = 24

\* C25 as stated: a probe that throws while the timeout has not been
\* reached is swallowed, poll sleeps and probes again; a probe that throws
\* when the elapsed time has reached the timeout makes poll fail with the
\* probe's own error.
C25_ProbeFailureSwallowed ==
  [][/\ (/\ po.pc = "probe" /\ po'.settled = "rejected")
        => IF po'.now - po.startTime < po.options.timeoutMs
           THEN po'.pc = "sleep" /\ po'.sleeps = po.sleeps + 1
           ELSE po'.pc = "thrown" /\ po'.error = po'.fnError
     /\ (/\ po.pc = "sleep" /\ po.settled = "rejected" /\ po' # po)
        => po'.pc = "probe" /\ po'.probes = po.probes + 1]_vars

\* C25: a probe that throws an error other than a polling-timeout error
\* while the timeout has not been reached is swallowed and poll sleeps;
\* after the sleep poll probes again, unless the timeout has been reached
\* by then, in which case it fails with its timeout error.  A probe that
\* throws when the elapsed time has reached the timeout makes poll fail
\* with the probe's own error, and so does a probe that throws a
\* polling-timeout error at any time.
C25_ProbeFailureSwallowedUnlessTimeout ==
  [][/\ (/\ po.pc = "probe" /\ po'.settled = "rejected")
        => IF /\ po'.now - po.startTime < po.options.timeoutMs
              /\ po'.fnError.cls # "PollingTimeoutError"
           THEN po'.pc = "sleep" /\ po'.sleeps = po.sleeps + 1
           ELSE po'.pc = "thrown" /\ po'.error = po'.fnError
     /\ (/\ po.pc = "sleep" /\ po.settled = "rejected" /\ po' # po)
        => IF po'.now - po.startTime < po.options.timeoutMs
           THEN po'.pc = "probe" /\ po'.probes = po.probes + 1
           ELSE /\ po'.pc = "thrown" /\ po'.probes = po.probes
                /\ po'.error = PollingTimeoutError(po.options.operationName,
                                                   po.options.timeoutMs)]_vars

\* C25 case: the first probe threw 'boom' before the timeout; poll slept
\* once and is probing for the second time
C25_Witness ==
  /\ po.pc = "probe"
  /\ po.probes = 2
  /\ po.polls = 0
  /\ po.sleeps = 1
  /\ po.now - po.startTime < po.options.timeoutMs

\* C26: with a retry predicate that always returns false, withRetry never
\* sleeps and never invokes the operation a second time, and when the
\* operation fails withRetry fails in that step with the very error the
\* operation raised.
C26_NeverRetryFailsAtOnce ==
  [][(/\ wr.pc = "call" /\ wr.opts.retryCondition = "never" /\ wr' # wr)
     => /\ wr'.calls = 1
        /\ wr'.sleeps = <<>>
        /\ wr'.retries = <<>>
        /\ wr'.pc \in {"returned", "thrown"}
        /\ wr'.fnError # NoError
           => /\ wr'.pc = "thrown"
              /\ wr'.error = wr'.fnError]_vars

\* C26 case: up to three attempts were allowed, the operation failed with
\* HTTP 503 and withRetry threw that error after its only invocation
C26_Witness ==
  /\ wr.pc = "thrown"
  /\ wr.opts.retryCondition = "never"
  /\ wr.opts.maxAttempts = 3
  /\ wr.calls = 1
  /\ wr.sleeps = <<>>
  /\ wr.error = HttpError(503, <<"S","e","r","v","i","c","e"," ","U","n","a","v","a","i","l","a","b","l","e">>)

\* C27 as stated: for every retry configuration with maxAttempts >= 3, when
\* the predicate always returns true and the operation fails twice and
\* then succeeds, withRetry returns the third attempt's result after
\* exactly two sleeps, the second sleep is not shorter than the first, and
\* both sleeps are at most maxDelayMs.
C27_TwoCappedNonDecreasingSleeps ==
  (/\ wr.pc = "returned"
   /\ wr.opts.retryCondition = "always"
   /\ wr.opts.maxAttempts >= 3
   /\ wr.calls = 3)
  => /\ wr.value \in RetryValues
     /\ Len(wr.sleeps) = 2
     /\ wr.sleeps[1] <= wr.sleeps[2]
     /\ wr.sleeps[1] <= wr.opts.maxDelayMs
     /\ wr.sleeps[2] <= wr.opts.maxDelayMs

\* C28: the coarse state of every check status built by getChecksStatus is
\* one of success, pending, failure, error, chosen in this order: a failed
\* check among the details gives failure; else an incomplete check gives
\* pending; else all checks successful gives success; else error.
\* areChecksFailing and areChecksPassing are never both true.
C28_CoarseStateByPriority ==
  cs.pc = "built"
  => LET status == cs.status
         n == Len(status.details)
         Failed(d) == d.conclusion \in { <<"f","a","i","l","u","r","e">>, <<"t","i","m","e","d","_","o","u","t">>,
                                         <<"c","a","n","c","e","l","l","e","d">>, <<"e","r","r","o","r">> }
         Incomplete(d) == d.status # "completed"
         Successful(d) == d.conclusion \in { <<"s","u","c","c","e","s","s">>, <<"s","k","i","p","p","e","d">>,
                                             <<"n","e","u","t","r","a","l">> }
     IN /\ status.state \in {"success", "pending", "failure", "error"}
        /\ status.state =
             (IF \E i \in 1..n : Failed(status.details[i]) THEN "failure"
              ELSE IF \E i \in 1..n : Incomplete(status.details[i])
              THEN "pending"
              ELSE IF \A i \in 1..n : Successful(status.details[i])
              THEN "success"
              ELSE "error")
        /\ ~(areChecksFailing(status) /\ areChecksPassing(status))
        /\ areChecksFailing(status) <=> status.state \in {"failure", "error"}
        /\ areChecksPassing(status) <=> status.state = "success"

\* C28 case: one check run has timed out and another is still in progress;
\* the state is failure, not pending
C28_Witness ==
  /\ cs.pc = "built"
  /\ cs.status.total = 2
  /\ cs.status.failed = 1
  /\ cs.status.pending = 1
  /\ cs.status.state = "failure"
  /\ areChecksFailing(cs.status)

\* C29 as stated: hasStabilityDaysPending(status) is true if and only if at
\* least one check in status.details is incomplete and has a name matching
\* the ignorable check (an entry of IGNORED_PENDING_CHECKS, matched as
\* hasBlockingPendingChecks matches it), whatever the other checks and the
\* coarse state are.
C29_StabilityPendingIffIgnorableIncomplete ==
  cs.pc = "built"
  => (hasStabilityDaysPending(cs.status)
      <=> \E i \in 1..Len(cs.status.details) :
            /\ cs.status.details[i].status # "completed"
            /\ \E ignored \in { <<"r","e","n","o","v","a","t","e","/","s","t","a","b","i","l","i","t","y","-","d","a","y","s">> } :
                 includes(toLowerCase(cs.status.details[i].name),
                          toLowerCase(ignored)))

\* C30: after a completed batch the process exits with a non-zero status if
\* and only if the summary's failed count, which is the number of recorded
\* 'failed' outcomes, is greater than zero; a batch whose non-merged
\* outcomes are all skips exits with status zero.
C30_ExitStatusFromFailures ==
  opc = "done"
  => LET failed == Cardinality({i \in 1..Len(results) :
                                  results[i].status = "failed"})
     IN /\ Summary.failed = failed
        /\ exitStatus(Summary) # 0 <=> failed > 0
        /\ (\A i \in 1..Len(results) :
              results[i].status \in {"merged", "skipped"})
           => exitStatus(Summary) = 0

\* C30 case: a batch of two PRs ended with one skip and one failure and the
\* process exits with status 1
C30_Witness ==
  /\ opc = "done"
  /\ Len(prs) = 2
  /\ Summary.skipped = 1
  /\ Summary.failed = 1
  /\ exitStatus(Summary) = 1

\* C33 as stated: the first sleep of poll is as long as the initial
\* interval; after each successful probe that the condition function
\* answers with 'continue' the interval is 1.2 times the previous one, capped
\* at maxIntervalMs, or, when an intervalAdjuster is supplied, the value the
\* adjuster returns; every sleep is at most maxIntervalMs and no sleep is
\* shorter than the one before it.
C33_IntervalSchedule ==
  [][(po.pc = "probe" /\ po'.pc = "sleep")
     => /\ po'.sleeps = 1 => po'.interval = po.options.initialIntervalMs
        /\ po'.interval <= po.options.maxIntervalMs
        /\ po.sleeps >= 1 => po'.interval >= po.interval
        /\ (/\ po'.settled = "resolved"
            /\ po.options.condition[po'.lastResult] = "continue")
           => IF po.options.intervalAdjuster = "undefined"
              THEN po'.interval = Min((po.interval * 6) \div 5,
                                      po.options.maxIntervalMs)
              ELSE po'.interval = po.interval * 3]_vars

\* C34 as stated: two polls given the same probe answers at the same times,
\* one without onPoll and one with an onPoll that returns or throws, end
\* the same way: both return the same value or both throw the same error,
\* after the same number of probe invocations.
C34_ObserverLeavesOutcomeAlone ==
  (PollEnded(po) /\ PollEnded(observed))
  => /\ observed.pc = po.pc
     /\ observed.value = po.value
     /\ observed.error = po.error
     /\ observed.probes = po.probes

\* C35: when withRetry has failed and the failure of its last attempt is
\* one the predicate accepts (so that every attempt failed with an accepted
\* failure), the operation was invoked exactly maxAttempts times, withRetry
\* slept exactly maxAttempts - 1 times, and the error it failed with is the
\* error of the last attempt, unchanged.
C35_ExhaustionRethrowsLastError ==
  (/\ wr.pc = "thrown"
   /\ wr.lastError # NoLastError
   /\ \/ wr.opts.retryCondition = "always"
      \/ wr.opts.retryCondition = "undefined" /\ isTransientError(wr.lastError))
  => /\ wr.calls = wr.opts.maxAttempts
     /\ Len(wr.sleeps) = wr.opts.maxAttempts - 1
     /\ wr.attempt = wr.opts.maxAttempts
     /\ wr.error = wr.lastError
     /\ wr.error \in RetryErrors

\* C35 case: four attempts were allowed, the default predicate accepted
\* HTTP 503 four times, and withRetry failed with that error after sleeping
\* 10, 20 and 30 ms
C35_Witness ==
  /\ wr.pc = "thrown"
  /\ wr.opts.maxAttempts = 4
  /\ wr.opts.retryCondition = "undefined"
  /\ wr.calls = 4
  /\ wr.sleeps = <<10, 20, 30>>
  /\ wr.error = HttpError(503, <<"S","e","r","v","i","c","e"," ","U","n","a","v","a","i","l","a","b","l","e">>)

\* C37: getReviewInfo reports hasApproval exactly when the listed reviews
\* hold an approving review by some reviewer after which, in the listed
\* order, the same reviewer has no approved, changes-requested or dismissed
\* review (commented and pending reviews are ignored): an approval followed
\* by a dismissal or a change request of the same reviewer does not count.
C37_ApprovalIsLatestMeaningfulReview ==
  rv.pc = "built"
  => (rv.info.hasApproval
      <=> \E i \in DOMAIN rv.reviews :
            /\ rv.reviews[i].login # ""
            /\ rv.reviews[i].state = "APPROVED"
            /\ \A j \in DOMAIN rv.reviews :
                 (j > i /\ rv.reviews[j].login = rv.reviews[i].login)
                 => rv.reviews[j].state
                      \notin {"APPROVED", "CHANGES_REQUESTED", "DISMISSED"})

\* C37 case: alice approved, then dismissed, bob commented: no approval is
\* reported
C37_Witness ==
  /\ rv.pc = "built"
  /\ rv.reviews = << Review("alice", "APPROVED"), Review("bob", "COMMENTED"),
                     Review("alice", "DISMISSED") >>
  /\ ~rv.info.hasApproval

\* C38: during a batch every PR of the input list (the numbers are
\* distinct) is in exactly one place: in the work queue, being progressed,
\* on the deferred list, or among the outcome records; when
\* orchestrateMerge returns, every input PR has exactly one outcome record
\* and processed = merged + skipped + failed = the number of input PRs.
C38_EachPRInOnePlace ==
  LET inQueue(n) == Cardinality({i \in DOMAIN allPRs : allPRs[i] = n})
      inDeferred(n) ==
        Cardinality({i \in DOMAIN deferredPRs : deferredPRs[i] = n})
      inResults(n) ==
        Cardinality({i \in DOMAIN results : results[i].prNumber = n})
      inProgress(n) == IF n \in active THEN 1 ELSE 0
  IN opc # "idle"
     => /\ \A i \in DOMAIN prs :
             inQueue(prs[i]) + inProgress(prs[i]) + inDeferred(prs[i])
               + inResults(prs[i]) = 1
        /\ opc = "done"
           => /\ \A i \in DOMAIN prs : inResults(prs[i]) = 1
              /\ Summary.processed = Len(prs)
              /\ Summary.merged + Summary.skipped + Summary.failed
                   = Summary.processed

\* C38 case: a batch of three PRs has returned; one of them was deferred
\* and progressed a second time, and the three outcomes are one merge and
\* two skips
C38_Witness ==
  /\ opc = "done"
  /\ Len(prs) = 3
  /\ Len(deferLog) = 1
  /\ Summary.processed = 3
  /\ Summary.merged = 1
  /\ Summary.skipped = 2

\* C39 as stated: every outcome that processSinglePR returns with status
\* 'skipped' or 'failed' carries a non-empty reason, on every path, the
\* path on which merge-blocked refusals followed by late checks that pass
\* use up the three merge attempts of every attempt included.
C39_SkippedAndFailedCarryReason ==
  (/\ ps.pc = "return"
   /\ ps.result.status \in {"skipped", "failed"})
  => /\ ps.result.reason # Undefined
     /\ ps.result.reason # <<>>

\* C36 as stated: a second or third attempt of processSinglePR begins only
\* when the attempt before it ended by raising an error classified
\* retriable (a merge-blocked error, or an error whose message contains
\* 'needs rebase'); an attempt that ends without such an error is not
\* followed by a restart.
C36_RestartOnlyAfterRetriableError ==
  [][(ps'.attempt > ps.attempt)
     => /\ ps'.attempt = ps.attempt + 1
        /\ ps'.pc = "retrySleep"
        /\ ps'.caught # NoError
        /\ \/ ps'.caught.cls = "MergeBlockedError"
           \/ includes(ps'.caught.message, <<"n","e","e","d","s"," ","r","e","b","a","s","e">>)]_vars

\* C31: in a live run the approving review is submitted in an attempt
\* exactly when the review info fetched in that attempt reports no
\* outstanding approval (requested changes play no part); the review info is
\* fetched, and so the approval submitted, at most once per attempt; when
\* the approval is submitted the attempt has seen CI passing and has issued
\* no rebase trigger and no merge call.
C31_ApprovalIffNoneOutstanding ==
  [][(opc = "inPR" /\ ~opts.dryRun /\ ps' # ps)
     => /\ (ps.pc = "reviews" /\ ps'.reviewInfo.fetched)
           => (ps'.pc = "approve" <=> ~ps'.reviewInfo.hasApproval)
        /\ ps'.pc = "approve"
           => /\ ps.pc = "reviews"
              /\ ~ps.reviewInfo.fetched
              /\ ps'.attempt = ps.attempt
              /\ ps'.passedShas # {}
              /\ ps'.previousSha = "" /\ ps'.polledSha = ""
              /\ ps'.triggerApi = "none"
              /\ ps'.mergeAttempt = 0
        /\ (ps.reviewInfo.fetched /\ ps'.attempt = ps.attempt)
           => /\ ps'.reviewInfo = ps.reviewInfo
              /\ ps'.pc \notin {"reviews", "approve"} \/ ps.pc = "reviews"]_vars

\* a live run that submitted its approval while changes were requested and
\* then merged the PR
C31_Witness ==
  /\ ~opts.dryRun
  /\ ps.pc = "return"
  /\ ps.result.status = "merged"
  /\ ps.reviewInfo.fetched
  /\ ~ps.reviewInfo.hasApproval
  /\ ps.reviewInfo.changesRequested

\* C32: in a live run, a snapshot fetched at line 178 or line 222 that needs
\* a rebase makes the attempt trigger one (the host call of triggerRebase,
\* or none when the checkbox is already ticked) with that snapshot's head
\* as the pre-trigger head; and whenever the attempt goes on after a
\* trigger, to the final check or to a merge call, the rebase poll has read
\* a head different from the pre-trigger head and a passing CI status has
\* been read for the head fetched after the rebase.
C32_RebaseBeforeMerge ==
  [][(opc = "inPR" /\ ~opts.dryRun /\ ps' # ps)
     => /\ (/\ ps.pc \in {"fetch5", "fetch6"}
            /\ ps'.attempt = ps.attempt
            /\ ps'.caught = NoError
            /\ needsRebase(ps'.freshPR))
           => /\ ps'.pc = IF triggerRebaseCall(ps'.freshPR) = "none"
                          THEN "rebasePoll" ELSE "rebaseTrigger"
              /\ ps'.triggerApi = triggerRebaseCall(ps'.freshPR)
              /\ ps'.previousSha = ps'.freshPR.sha
              /\ ps'.polledSha = "" /\ ps'.rebasedSha = ""
        /\ (ps'.pc \in {"fetch6", "mergeFetch", "merge"} /\ ps'.previousSha # "")
           => /\ ps'.polledSha \notin {"", ps'.previousSha}
              /\ ps'.rebasedSha # ""
              /\ ps'.rebasedSha \in ps'.passedShas]_vars

\* a live run about to call pulls.merge after a rebase at the final check
\* that brought a new head whose CI passed
C32_Witness ==
  /\ ~opts.dryRun
  /\ ps.pc = "merge"
  /\ ps.site = "rebase6"
  /\ ps.previousSha = "sha1"
  /\ ps.polledSha = "sha2"
  /\ ps.rebasedSha = "sha2"
  /\ ps.passedShas = {"sha1", "sha2"}

\* C40 as stated: in a live run pulls.merge is called only when, earlier in
\* the same attempt, getChecksStatus resolved with state 'success' for the
\* PR's head commit, the head of the snapshot the attempt fetched last.
C40_MergeOnlyAfterHeadPassed ==
  (opc = "inPR" /\ ~opts.dryRun /\ ps.pc = "merge")
    => ps.freshPR.sha \in ps.passedShas

\* what the code does ensure: before pulls.merge is called, the attempt has
\* read a passing CI status for the head of some snapshot it fetched
C40_SomeHeadPassed ==
  (opc = "inPR" /\ ~opts.dryRun /\ ps.pc = "merge") => ps.passedShas # {}

=============================================================================
